---- MODULE Spec2Model ----
(***************************************************************************)
(* A model of porter's Lutron core: the LIP connection state machine       *)
(* (liplib.LipServer, illiplib.IlluminationClient), the per-target session *)
(* manager (lutron.LipserviceManager) under porter's asyncio loop, and the *)
(* metrics state a scrape reads (lutron.LutronClient.collect).             *)
(*                                                                         *)
(* Several specifications share the module:                                *)
(*   Spec      one connection and the coroutines that use it               *)
(*   LiveSpec  Spec with the event loop's fairness and a controller that   *)
(*             may recover for good                                        *)
(*   MgrSpec   LipserviceManager.poll, LutronClient.poll and porter's      *)
(*             async_loop over abstract tasks                              *)
(*   PollSpec  Lipservice.poll's frame effects against collect             *)
(*   BrainSpec Brainstem.run and Brainstem.observe_event                   *)
(*   TimerSpec Timers.process_timers against the clock                     *)
(*   KaSpec    Lipservice.ping against the frames poll receives            *)
(*   MgrLiveSpec  MgrSpec under a fair event loop                          *)
(*   RuSpec    successive _read_until calls on one byte stream             *)
(*   DirSpec   the device directory: report, dump, flat configuration      *)
(*   ReSpec    a second report imported into a loaded directory            *)
(*   CtrSpec   the press counters and `created` over reconnects            *)
(*   WrSpec    client.run against two targets                              *)
(*   FrSpec    Lipservice.poll on the frames read() matches                *)
(*   XSpec     the reconnect of read() with the buffer of the old line     *)
(*   EpSpec    EventPropagator between the scrape and the scheduler thread *)
(*   NxSpec    the NetAXS session between open/close and its coroutine     *)
(***************************************************************************)
EXTENDS Integers, Sequences, FiniteSets, TLC

VARIABLES
    \* ---- one connection (liplib.py / illiplib.py) ----
    variant,    \* "lip" (LipServer) or "illum" (IlluminationClient)
    st,         \* _state
    rlock,      \* _read_lock: the holding task, or "free"
    wlock,      \* _write_lock: the holding task, or "free"
    sock,       \* reader/writer: "none", "live" or "dead" (peer gone)
    buf,        \* _read_buffer: "empty" or "partial" (an unfinished frame)
    stored,     \* _host/_port/_username/_password: "default" or "cfg"
    pc,         \* where each coroutine is
    op,         \* the write-side operation a task is in
    ret,        \* where a task's open() call returns to
    oarg,       \* the credentials the open() call in progress was given
    hs,         \* index of the login step of the open() holding the locks
    ofail,      \* whether a step of that open() has failed
    qi,         \* query_levels: dimmers still to query
    good,       \* the controller accepts and completes logins from now on
    lastOpen,   \* outcome of the last open() call that returned
    lastRead,   \* outcome of the last read() call that returned
    crashed,    \* a tracked task raised: the asyncio loop is gone
    \* ---- the session manager and porter's loop (lutron.py, porter.py) ----
    registered, \* target_to_cfparams: the targets registered so far
    lips,       \* hostport_to_lipservice: the (host, port) with a connection
    running,    \* tasks_pending: per loop, the tasks still pending
    finished,   \* tasks_pending: per loop, the tasks done with a continuation
    failed,     \* tasks_pending: per loop, the tasks done with an exception
    mgr,        \* LipserviceManager.poll: "idle", "waiting" or "sleeping"
    top,        \* async_loop's awaiting set: each top-level coroutine's status
    asyncThread,\* the "asyncio loop" thread: "running" or "exited"
    mainThread, \* the main thread: "serving" or "stopped"
    fatal,      \* async_loop has seen an exception in a done task
    resub,      \* some continuation has been resubmitted
    firstOf,    \* per (host, port): the first target registered with it
    nconn,      \* per (host, port): the Lipservice objects ever made for it
    otable,     \* per (host, port): the outputlevels its Lipservice began with
    scrape,     \* the last LutronClient.collect: its target and what it gave
    \* ---- one Lipservice's metrics state and a scrape (lutron.py) ----
    outputlevels,                  \* deviceid -> None or Some(level)
    counts_by_scene_number,        \* component -> count
    counts_by_deviceid_component,  \* <<deviceid, component>> -> count
    cv,         \* Lipservice.cv: "free" or "collect"
    ppc,        \* where Lipservice.poll is
    cur,        \* the frame (a, b, c, d) poll is handling
    new_value,  \* _increment_counter's local
    nframes,    \* frames decoded so far
    nobserved,  \* observe_event calls made for this module's frames
    cpc,        \* where collect is
    ckeys,      \* the size of outputlevels when collect's iteration began
    ctodo,      \* the position of collect's iteration
    snap,       \* the views collect has built
    cres,       \* how the last collect ended: "none", "ok" or "raised"
    seen,       \* the metrics states that existed during the collect call
    \* ---- the reaction engine (brainstem.py) ----
    bstack,     \* Brainstem.run's call stack: frames (action, next step)
    bact,       \* the action of the outermost run
    blog,       \* the client.run calls made by the outermost run, in order
    bres,       \* "idle", "running", "awaiting", "returned" or "raised"
    bexc,       \* what the run raised: "none", "client", "AttributeError"
    bobs,       \* the selector observe_event was last called with
    bcmd,       \* the action observe_event answered it with, or "None"
    bkey,       \* the (module, target) observe_event was last called for
    eventbuffer,\* Brainstem.eventbuffer.items: the entries, as their times
    ncalls,     \* the run and observe_event calls made so far
    ratelimits, \* Brainstem.ratelimits: action -> the time it last passed
    \* ---- the daily timers (brainstem.py Timers) ----
    tnow,       \* the clock, in seconds since 00:00:00 of day 0
    today,      \* Timers.today, a day number
    heap_of_timers, \* the set of (instant, action) in the heap
    tpc,        \* where process_timers is
    tcall,      \* process_timers' local `now`
    tsleep,     \* the delay of the asyncio.sleep it returned, 0 if none
    tfired,     \* the entries whose action this call has run, in order
    theap0,     \* the heap when this call began
    ttoday0,    \* Timers.today when this call began
    \* ---- one Lipservice's keep-alive (lutron.py Lipservice.ping) ----
    know,       \* time.time(), in seconds since the Lipservice was made
    last_ping,  \* Lipservice.last_ping
    kpc,        \* where Lipservice.ping is
    kwake,      \* when its asyncio.sleep ends
    ktraffic,   \* when a frame, a ping or an open last went over the line
    kidle,      \* at the last decision to ping: the seconds since ktraffic
    \* ---- successive _read_until calls on one byte stream (liplib.py 169-193) ----
    rstream0,   \* the bytes the peer sends before it closes
    rdata,      \* those of them reader.read has not yet returned
    read_buffer, \* LipServer._read_buffer
    value,      \* the terminator of the _read_until calls
    rupc,       \* where _read_until is
    ruout,      \* what the calls so far returned
    rupartial,  \* a search has found an incomplete frame in the buffer
    \* ---- the device directory (lutron.py ConfigParams) ----
    js,         \* the integration report, {} when the configuration is flat
    sceneid_to_name, \* ConfigParams.sceneid_to_name: None or Some(dict)
    deviceid_to_sensortuple, \* id -> (name, area, buttons)
    deviceid_to_dimmertuple, \* id -> (name, area)
    areaname_to_devices, \* None or Some(area -> list of device tuples)
    dpc,        \* how far the directory has come
    direct,     \* the maps as process_integration_report left them
    ytext,      \* what dump_integration_yaml_string gave
    yconf,      \* yaml.safe_load of it: config['lutron']
    \* ---- a second process_integration_report on a loaded directory ----
    newjs,      \* the report process_integration_report is called with again
    repc,       \* where that call is
    rek,        \* maps emptied, or turns of the loops made
    previous,   \* the directory before the call
    observed,   \* None, or Some(the directory a scrape has read)
    \* ---- the press counters over the life of one Lipservice (lutron.py) ----
    cnow,       \* time.time(), in seconds
    clientstarttime, \* LutronClient.clientstarttime
    conn,       \* the Lipservice: "none", "closed" or "opened"
    opentimes,  \* the times at which its open() has succeeded
    created,    \* None, or Some(created of the counter family last scraped)
    \* ---- client.run over two targets (lutron.py, liplib.py write) ----
    wstate,     \* per target: the _state of its LipServer
    wire,       \* per target: what its writer was given, in order
    wdrain,     \* per target: how its next drain ends, "ok" or "OSError"
    nruns,      \* the client.run calls made so far
    lastrun,    \* the last client.run call: target, selector, level
    \* ---- one Lipservice.poll call after the other (lutron.py 190-246, liplib.py 196-213) ----
    fpc,        \* where Lipservice.poll is: "read", "ret" or "raised"
    flast,      \* the frame the last read() matched, as its four groups
    \* ---- the reconnect of LipServer.read (liplib.py 210-214) and the login of open (158-165) ----
    xbuf,       \* LipServer._read_buffer, kept from one connection to the next
    xold,       \* how many leading bytes of xbuf came over the previous connection
    xline,      \* the bytes the new connection delivers before its end
    xpc,        \* where the reopen is: "login", "password", "prompt", "read", "done", "raised"
    xframe,     \* the frame read() returned after the reopen, <<>> for none
    xmixed,     \* TRUE when that frame began in bytes of the previous connection
    \* ---- EventPropagator (brainstem.py 74-98) between NetaxsClient.poll and collect (netaxs.py 554-577, 585-687) ----
    awaitables, \* EventPropagator.awaitables of the target: the pending reactions
    otherset,   \* NetaxsClient.awaitables, the set add_awaitables_to is given
    handed,     \* how often each reaction was put into poll's awaiting set
    nadded,     \* how many reactions propagate has added
    appc,       \* where poll is: "idle", "merged" (after |=) or "reset"
    ncvholder,  \* who holds NetaxsClient.cv: "none", "poll" or "session"
    \* ---- the NetAXS Session between its two sides (netaxs.py 57-149, 520-552) ----
    session,    \* Session.session: 0 for None, else the number of the login
    async_request, \* Session.async_request: "NONE", "OPEN" or "CLOSE"
    websocket,  \* Session.websocket: 0 for None, else the login whose cookies it has
    wcookies,   \* the cookies the connect under way was given
    npc,        \* the coroutine of the session: "start", "read", "closing", "connecting", "await"
    nthen,      \* what follows the connect under way: "read" or "await"
    nbranch,    \* the branch handle_async_request took before its await
    spc,        \* the synchronous side: "idle", or "opening" inside open()
    nlogins     \* how many logins were made

connVars == <<variant, st, rlock, wlock, sock, buf, stored, pc, op, ret, oarg,
              hs, ofail, qi, good, lastOpen, lastRead, crashed>>

mgrVars == <<registered, lips, running, finished, failed, mgr, top,
             asyncThread, mainThread, fatal, resub, firstOf, nconn, otable,
             scrape>>

pollVars == <<outputlevels, counts_by_scene_number,
              counts_by_deviceid_component, cv, ppc, cur, new_value, nframes,
              nobserved, cpc, ckeys, ctodo, snap, cres, seen>>

brainVars == <<bstack, bact, blog, bres, bexc, bobs, bcmd, bkey,
               eventbuffer, ncalls,
              ratelimits>>

\* The variables of the parts that a connection, the manager and a
\* Lipservice's poll each leave alone.
timerVars == <<tnow, today, heap_of_timers, tpc, tcall, tsleep, tfired,
               theap0, ttoday0>>

kaVars == <<know, last_ping, kpc, kwake, ktraffic, kidle>>

ruVars == <<rstream0, rdata, read_buffer, value, rupc, ruout, rupartial>>

dirVars == <<js, sceneid_to_name, deviceid_to_sensortuple, deviceid_to_dimmertuple, areaname_to_devices, dpc, direct, ytext, yconf>>

reVars == <<newjs, repc, rek, previous, observed>>

ctrVars == <<cnow, clientstarttime, conn, opentimes, created>>

wrVars == <<wstate, wire, wdrain, nruns, lastrun>>

frVars == <<fpc, flast>>

xVars == <<xbuf, xold, xline, xpc, xframe, xmixed>>

epVars == <<awaitables, otherset, handed, nadded, appc, ncvholder>>

nxVars == <<session, async_request, websocket, wcookies, npc, nthen, nbranch, spc, nlogins>>

extVars == <<brainVars, timerVars, kaVars, ruVars, dirVars, reVars, ctrVars, wrVars, frVars, xVars, epVars, nxVars>>

nonConnVars == <<mgrVars, pollVars, extVars>>

nonMgrVars == <<connVars, pollVars, extVars>>

nonPollVars == <<connVars, mgrVars, extVars>>

nonBrainVars == <<connVars, mgrVars, pollVars, timerVars, kaVars,
    ruVars,
    dirVars,
    reVars,
    ctrVars,
    wrVars,
    frVars,
    xVars,
    epVars,
    nxVars>>

nonTimerVars == <<connVars, mgrVars, pollVars, brainVars, kaVars,
    ruVars,
    dirVars,
    reVars,
    ctrVars,
    wrVars,
    frVars,
    xVars,
    epVars,
    nxVars>>

nonKaVars == <<connVars, mgrVars, pollVars, brainVars, timerVars,
    ruVars,
    dirVars,
    reVars,
    ctrVars,
    wrVars,
    frVars,
    xVars,
    epVars,
    nxVars>>

nonRuVars == <<connVars, mgrVars, pollVars, brainVars, timerVars, kaVars,
    dirVars,
    reVars,
    ctrVars,
    wrVars,
    frVars,
    xVars,
    epVars,
    nxVars>>

nonDirVars == <<connVars, mgrVars, pollVars, brainVars, timerVars, kaVars, ruVars,
    reVars,
    ctrVars,
    wrVars,
    frVars,
    xVars,
    epVars,
    nxVars>>

nonReVars == <<connVars, mgrVars, pollVars, brainVars, timerVars, kaVars, ruVars, dirVars,
    ctrVars,
    wrVars,
    frVars,
    xVars,
    epVars,
    nxVars>>

nonDirReVars == <<connVars, mgrVars, pollVars, brainVars, timerVars, kaVars, ruVars,
    ctrVars,
    wrVars,
    frVars,
    xVars,
    epVars,
    nxVars>>

nonCtrVars == <<connVars, mgrVars, pollVars, brainVars, timerVars, kaVars, ruVars, dirVars, reVars,
    wrVars,
    frVars,
    xVars,
    epVars,
    nxVars>>

nonPollCtrVars == <<connVars, mgrVars, brainVars, timerVars, kaVars, ruVars,
    dirVars, reVars,
    wrVars,
    frVars,
    xVars,
    epVars,
    nxVars>>

nonWrVars == <<connVars, mgrVars, pollVars, brainVars, timerVars, kaVars, ruVars, dirVars, reVars, ctrVars,
    frVars,
    xVars,
    epVars,
    nxVars>>

nonFrVars == <<connVars, mgrVars, pollVars, brainVars, timerVars, kaVars, ruVars, dirVars, reVars, ctrVars, wrVars,
    xVars,
    epVars,
    nxVars>>

nonFrConnPollVars == <<mgrVars, brainVars, timerVars, kaVars, ruVars, dirVars,
    reVars, ctrVars, wrVars,
    xVars,
    epVars,
    nxVars>>

nonXVars == <<connVars, mgrVars, pollVars, brainVars, timerVars, kaVars, ruVars, dirVars, reVars, ctrVars, wrVars, frVars,
    epVars,
    nxVars>>

nonEpVars == <<connVars, mgrVars, pollVars, brainVars, timerVars, kaVars, ruVars, dirVars, reVars, ctrVars, wrVars, frVars, xVars,
    nxVars>>

nonNxVars == <<connVars, mgrVars, pollVars, brainVars, timerVars, kaVars, ruVars, dirVars, reVars, ctrVars, wrVars, frVars, xVars, epVars>>

vars == <<connVars, mgrVars, pollVars, extVars>>

(***************************************************************************)
(* Bounds and program constants                                            *)
(***************************************************************************)
NDimmers == 1

NumMon == 4

Tasks == {"poll", "ql", "ka", "cmd"}

Tracked == {"poll", "ka"}

Variants == {"lip", "illum"}

\* The login exchange as the awaits open() makes after the connect:
\* "rd" is an await of _read_until, "dr" a writer.write followed by drain.
RECURSIVE MonSteps(_)
MonSteps(n) == IF n = 0 THEN <<>> ELSE <<"dr", "rd">> \o MonSteps(n - 1)

LoginSteps(v) ==
    IF v = "lip"
    THEN <<"rd", "dr", "rd", "dr", "rd">>
    ELSE <<"rd", "dr", "rd">> \o MonSteps(NumMon)

\* LipServer.open ignores what _read_until returns; IlluminationClient.open
\* cleans up (state Closed, return) when it is False.
ChecksRead(v) == v = "illum"

NoOpen == [ran |-> FALSE, failed |-> FALSE, raised |-> FALSE, st |-> "Closed"]

NoRead == [disc |-> FALSE, opens |-> 0, res |-> "none", arg |-> "none",
           was |-> "none"]

ConnInit ==
    /\ variant \in Variants
    /\ st = "Closed"
    /\ rlock = "free"
    /\ wlock = "free"
    /\ sock = "none"
    /\ buf = "empty"
    /\ stored = "default"
    /\ pc = [t \in Tasks |->
               CASE t = "poll" -> "p_read"
                 [] t = "ql"   -> "q_start"
                 [] t = "ka"   -> "k_sleep"
                 [] OTHER      -> "c_idle"]
    /\ op = [t \in Tasks |->
               CASE t = "ka" -> "ping"
                 [] t = "ql" -> "query"
                 [] OTHER    -> "none"]
    /\ ret = [t \in Tasks |-> "none"]
    /\ oarg = [t \in Tasks |-> "none"]
    /\ hs = 0
    /\ ofail = FALSE
    /\ qi = NDimmers
    /\ good = FALSE
    /\ lastOpen = NoOpen
    /\ lastRead = NoRead
    /\ crashed = FALSE


(***************************************************************************)
(* open(): liplib.py 132-167, illiplib.py 95-139                           *)
(***************************************************************************)
\* Leaving open(): both `async with` blocks release their locks, on a return
\* and on an exception alike.  A raise inside read()'s reopen is a raise of
\* read().
OpenReturn(t, newst, hasFailed, raised) ==
    /\ st' = newst
    /\ rlock' = "free"
    /\ wlock' = "free"
    /\ hs' = 0
    /\ ofail' = FALSE
    /\ pc' = [pc EXCEPT ![t] = IF raised THEN "raised" ELSE ret[t]]
    /\ lastOpen' = [ran |-> TRUE, failed |-> hasFailed, raised |-> raised,
                    st |-> newst]
    /\ lastRead' = IF raised /\ ret[t] = "r_after"
                   THEN [lastRead EXCEPT !.res = "raised"]
                   ELSE lastRead

\* With both locks held: `if self._state != Closed: return`, else Opening
\* and the arguments are stored.
OpenEnter(t) ==
    IF st # "Closed"
    THEN /\ rlock' = "free"
         /\ wlock' = "free"
         /\ pc' = [pc EXCEPT ![t] = ret[t]]
         /\ lastOpen' = [ran |-> FALSE, failed |-> FALSE, raised |-> FALSE,
                         st |-> st]
         /\ UNCHANGED <<st, stored, hs, ofail>>
    ELSE /\ st' = "Opening"
         /\ stored' = oarg[t]
         /\ rlock' = t
         /\ wlock' = t
         /\ pc' = [pc EXCEPT ![t] = "o_conn"]
         /\ hs' = 0
         /\ ofail' = FALSE
         /\ UNCHANGED lastOpen

\* `async with self._read_lock:` then `async with self._write_lock:`; a free
\* asyncio.Lock is taken without yielding.
OpenLock(t) ==
    /\ pc[t] = "o_rl"
    /\ rlock = "free"
    /\ IF wlock = "free"
       THEN OpenEnter(t)
       ELSE /\ rlock' = t
            /\ pc' = [pc EXCEPT ![t] = "o_wl"]
            /\ UNCHANGED <<st, stored, wlock, hs, ofail, lastOpen>>
    /\ UNCHANGED <<nonConnVars, variant, sock, buf, op, ret, oarg, qi, good, lastRead,
                   crashed>>

OpenWLock(t) ==
    /\ pc[t] = "o_wl"
    /\ wlock = "free"
    /\ OpenEnter(t)
    /\ UNCHANGED <<nonConnVars, variant, sock, buf, op, ret, oarg, qi, good, lastRead,
                   crashed>>

\* `await asyncio.open_connection(host, port)` succeeded.
ConnectOk(t) ==
    /\ pc[t] = "o_conn"
    /\ sock' = "live"
    /\ hs' = 1
    /\ pc' = [pc EXCEPT ![t] = "o_hs"]
    /\ UNCHANGED <<nonConnVars, variant, st, rlock, wlock, buf, stored, op, ret, oarg,
                   ofail, qi, good, lastOpen, lastRead, crashed>>

\* `except OSError`: warning, state Closed, return.
ConnectFail(t) ==
    /\ pc[t] = "o_conn"
    /\ ~good
    /\ OpenReturn(t, "Closed", TRUE, FALSE)
    /\ UNCHANGED <<nonConnVars, variant, sock, buf, stored, op, ret, oarg, qi, good,
                   crashed>>

InLogin(t, kind) ==
    /\ pc[t] = "o_hs"
    /\ hs \in 1..Len(LoginSteps(variant))
    /\ LoginSteps(variant)[hs] = kind

\* The next await of the login exchange, or `self._state = Opened` after the
\* last one.
Advance(t, failedNow) ==
    IF hs = Len(LoginSteps(variant))
    THEN OpenReturn(t, "Opened", ofail \/ failedNow, FALSE)
    ELSE /\ hs' = hs + 1
         /\ ofail' = (ofail \/ failedNow)
         /\ UNCHANGED <<st, rlock, wlock, pc, lastOpen, lastRead>>

\* _read_until(literal) finds the prompt: the buffer is consumed through it.
HsReadOk(t) ==
    /\ InLogin(t, "rd")
    /\ sock = "live"
    /\ buf' = "empty"
    /\ Advance(t, FALSE)
    /\ UNCHANGED <<nonConnVars, variant, sock, stored, op, ret, oarg, qi, good, crashed>>

\* _read_until returns False (empty read or OSError).
HsReadFalse(t) ==
    /\ InLogin(t, "rd")
    /\ sock = "dead"
    /\ IF ChecksRead(variant)
       THEN OpenReturn(t, "Closed", TRUE, FALSE)
       ELSE Advance(t, TRUE)
    /\ UNCHANGED <<nonConnVars, variant, sock, buf, stored, op, ret, oarg, qi, good,
                   crashed>>

\* writer.write(...); await writer.drain() completes.  On a connection the
\* peer has left the drain may still complete (the bytes are only buffered).
HsDrainOk(t) ==
    /\ InLogin(t, "dr")
    /\ Advance(t, FALSE)
    /\ UNCHANGED <<nonConnVars, variant, sock, buf, stored, op, ret, oarg, qi, good,
                   crashed>>

\* drain() raises ConnectionResetError: open() has no handler for it.
HsDrainRaise(t) ==
    /\ InLogin(t, "dr")
    /\ sock = "dead"
    /\ OpenReturn(t, st, TRUE, TRUE)
    /\ UNCHANGED <<nonConnVars, variant, sock, buf, stored, op, ret, oarg, qi, good,
                   crashed>>

OpenStep(t) ==
    \/ OpenLock(t)
    \/ OpenWLock(t)
    \/ ConnectOk(t)
    \/ ConnectFail(t)
    \/ HsReadOk(t)
    \/ HsReadFalse(t)
    \/ HsDrainOk(t)
    \/ HsDrainRaise(t)


(***************************************************************************)
(* read(): liplib.py 195-216, illiplib.py 198-221; Lipservice.poll         *)
(***************************************************************************)
\* A read() that took the write lock as well, as open() does.
ReadAcquireBothLocks(t) ==
    /\ rlock' = t
    /\ wlock' = t

\* `async with self._read_lock:` of read(): the read lock and no other.
ReadAcquire(t) ==
    /\ rlock' = t
    /\ UNCHANGED wlock

\* Leaving the `async with` of read().
ReadRelease(t) ==
    /\ rlock' = "free"
    /\ UNCHANGED wlock

\* Lipservice.open(): lipserver.open with the configured credentials.
CallOpen(t, back, creds) ==
    /\ pc' = [pc EXCEPT ![t] = "o_rl"]
    /\ ret' = [ret EXCEPT ![t] = back]
    /\ oarg' = [oarg EXCEPT ![t] = creds]

\* poll() awaits lipserver.read(): not Opened gives (None, None, None, None)
\* at once, and poll() then awaits self.open().
ReadCall ==
    /\ pc["poll"] = "p_read"
    /\ rlock = "free"
    /\ IF st # "Opened"
       THEN /\ lastRead' = NoRead
            /\ CallOpen("poll", "done", "cfg")
            /\ UNCHANGED <<rlock, wlock>>
       ELSE /\ ReadAcquire("poll")
            /\ pc' = [pc EXCEPT !["poll"] = "r_wait"]
            /\ UNCHANGED <<ret, oarg, lastRead>>
    /\ UNCHANGED <<nonConnVars, variant, st, sock, buf, stored, op, hs, ofail, qi, good,
                   lastOpen, crashed>>

\* _read_until(RESPONSE_RE) matches.  A frame whose fields do not convert
\* falls through to the failure tuple without a reconnect.
FrameArrives ==
    /\ pc["poll"] = "r_wait"
    /\ sock = "live"
    /\ buf' = "empty"
    /\ ReadRelease("poll")
    /\ \E converts \in BOOLEAN :
          IF converts
          THEN /\ lastRead' = [NoRead EXCEPT !.res = "frame"]
               /\ pc' = [pc EXCEPT !["poll"] = "p_handle"]
               /\ UNCHANGED <<ret, oarg>>
          ELSE /\ lastRead' = NoRead
               /\ CallOpen("poll", "done", "cfg")
    /\ UNCHANGED <<nonConnVars, variant, st, sock, stored, op, hs, ofail, qi, good,
                   lastOpen, crashed>>

\* Part of a frame arrives: _read_until appends it and reads on.
PartialArrives ==
    /\ pc["poll"] = "r_wait"
    /\ sock = "live"
    /\ buf = "empty"
    /\ buf' = "partial"
    /\ UNCHANGED <<nonConnVars, variant, st, rlock, wlock, sock, stored, pc, op, ret, oarg,
                   hs, ofail, qi, good, lastOpen, lastRead, crashed>>

\* _read_until returns False: the lock is left, the state set to Closed and
\* open awaited with the stored host, port, username and password.
ReadFalse ==
    /\ pc["poll"] = "r_wait"
    /\ sock = "dead"
    /\ ReadRelease("poll")
    /\ st' = "Closed"
    /\ lastRead' = [disc |-> TRUE, opens |-> 1, res |-> "pending",
                    arg |-> stored, was |-> stored]
    /\ CallOpen("poll", "r_after", stored)
    /\ UNCHANGED <<nonConnVars, variant, sock, buf, stored, op, hs, ofail, qi, good,
                   lastOpen, crashed>>

\* The reopen returned: read() returns the failure tuple, and poll(), seeing
\* None, awaits self.open().
ReadReturn ==
    /\ pc["poll"] = "r_after"
    /\ lastRead' = [lastRead EXCEPT !.res = "none"]
    /\ CallOpen("poll", "done", "cfg")
    /\ UNCHANGED <<nonConnVars, variant, st, rlock, wlock, sock, buf, stored, op, hs, ofail,
                   qi, good, lastOpen, crashed>>

\* poll() handles the frame and returns self.poll().
HandleFrame ==
    /\ pc["poll"] = "p_handle"
    /\ pc' = [pc EXCEPT !["poll"] = "done"]
    /\ UNCHANGED <<nonConnVars, variant, st, rlock, wlock, sock, buf, stored, op, ret, oarg,
                   hs, ofail, qi, good, lastOpen, lastRead, crashed>>

(***************************************************************************)
(* write / query / ping / logout: liplib.py 218-266, illiplib.py 223-275   *)
(***************************************************************************)
\* Where the caller of a write-side operation goes on.
AfterOp(t) ==
    CASE t = "ka" -> "done"
      [] t = "ql" -> "q_loop"
      [] OTHER    -> "c_idle"

\* `async with self._write_lock:` of a write-side operation.
WriteAcquire(t) ==
    /\ wlock = "free"
    /\ wlock' = t

\* query_levels(): await self.open(), then one query per dimmer.
QlStart ==
    /\ pc["ql"] = "q_start"
    /\ CallOpen("ql", "q_loop", "cfg")
    /\ UNCHANGED <<nonConnVars, variant, st, rlock, wlock, sock, buf, stored, op, hs, ofail,
                   qi, good, lastOpen, lastRead, crashed>>

QlQuery ==
    /\ pc["ql"] = "q_loop"
    /\ qi > 0
    /\ qi' = qi - 1
    /\ pc' = [pc EXCEPT !["ql"] = "w_lock"]
    /\ UNCHANGED <<nonConnVars, variant, st, rlock, wlock, sock, buf, stored, op, ret, oarg,
                   hs, ofail, good, lastOpen, lastRead, crashed>>

QlDone ==
    /\ pc["ql"] = "q_loop"
    /\ qi = 0
    /\ pc' = [pc EXCEPT !["ql"] = "finished"]
    /\ UNCHANGED <<nonConnVars, variant, st, rlock, wlock, sock, buf, stored, op, ret, oarg,
                   hs, ofail, qi, good, lastOpen, lastRead, crashed>>

\* Lipservice.ping(): the sleep is over, await lipserver.ping().
KaPing ==
    /\ pc["ka"] = "k_sleep"
    /\ pc' = [pc EXCEPT !["ka"] = "w_lock"]
    /\ UNCHANGED <<nonConnVars, variant, st, rlock, wlock, sock, buf, stored, op, ret, oarg,
                   hs, ofail, qi, good, lastOpen, lastRead, crashed>>

\* Another caller of the connection: write(...) or logout().
CmdCall ==
    /\ pc["cmd"] = "c_idle"
    /\ \E o \in {"write", "logout"} : op' = [op EXCEPT !["cmd"] = o]
    /\ pc' = [pc EXCEPT !["cmd"] = "w_lock"]
    /\ UNCHANGED <<nonConnVars, variant, st, rlock, wlock, sock, buf, stored, ret, oarg,
                   hs, ofail, qi, good, lastOpen, lastRead, crashed>>

\* The lock is taken; not Opened returns at once, else writer.write(...) and
\* the drain is awaited with the lock held.
WLock(t) ==
    /\ pc[t] = "w_lock"
    /\ IF st # "Opened"
       THEN /\ wlock = "free"
            /\ pc' = [pc EXCEPT ![t] = AfterOp(t)]
            /\ UNCHANGED wlock
       ELSE /\ WriteAcquire(t)
            /\ pc' = [pc EXCEPT ![t] = "w_drain"]
    /\ UNCHANGED <<nonConnVars, variant, st, rlock, sock, buf, stored, op, ret, oarg, hs,
                   ofail, qi, good, lastOpen, lastRead, crashed>>

\* drain() completes; logout then sets the state to Closed.
WDrainOk(t) ==
    /\ pc[t] = "w_drain"
    /\ wlock' = "free"
    /\ st' = IF op[t] = "logout" THEN "Closed" ELSE st
    /\ pc' = [pc EXCEPT ![t] = AfterOp(t)]
    /\ UNCHANGED <<nonConnVars, variant, rlock, sock, buf, stored, op, ret, oarg, hs, ofail,
                   qi, good, lastOpen, lastRead, crashed>>

\* drain() raises OSError: write() catches it, query/ping/logout do not.
WDrainRaise(t) ==
    /\ pc[t] = "w_drain"
    /\ sock = "dead"
    /\ wlock' = "free"
    /\ pc' = [pc EXCEPT ![t] = IF op[t] = "write" THEN AfterOp(t)
                                ELSE "raised"]
    /\ UNCHANGED <<nonConnVars, variant, st, rlock, sock, buf, stored, op, ret, oarg, hs,
                   ofail, qi, good, lastOpen, lastRead, crashed>>

(***************************************************************************)
(* The scheduler as this connection sees it, and the peer                  *)
(***************************************************************************)
StartPc(t) == IF t = "poll" THEN "p_read" ELSE "k_sleep"

\* LipserviceManager.poll: `create_task(task.result())` for a task that
\* returned its continuation.
Resubmit(t) ==
    /\ t \in Tracked
    /\ ~crashed
    /\ pc[t] = "done"
    /\ pc' = [pc EXCEPT ![t] = StartPc(t)]
    /\ UNCHANGED <<nonConnVars, variant, st, rlock, wlock, sock, buf, stored, op, ret, oarg,
                   hs, ofail, qi, good, lastOpen, lastRead, crashed>>

\* task.result() re-raises: the exception leaves LipserviceManager.poll and
\* LutronClient.poll, async_loop exits and asyncio.run cancels what is left.
Crash ==
    /\ ~crashed
    /\ \E t \in Tracked : pc[t] = "raised"
    /\ crashed' = TRUE
    /\ pc' = [t \in Tasks |-> IF pc[t] \in {"raised", "finished"} THEN pc[t]
                              ELSE "cancelled"]
    /\ rlock' = "free"
    /\ wlock' = "free"
    /\ UNCHANGED <<nonConnVars, variant, st, sock, buf, stored, op, ret, oarg, hs, ofail,
                   qi, good, lastOpen, lastRead>>

\* The controller closes or resets the connection.
PeerClose ==
    /\ sock = "live"
    /\ ~good
    /\ sock' = "dead"
    /\ UNCHANGED <<nonConnVars, variant, st, rlock, wlock, buf, stored, pc, op, ret, oarg,
                   hs, ofail, qi, good, lastOpen, lastRead, crashed>>

\* From here on the controller accepts connections and completes logins.
Recover ==
    /\ ~good
    /\ good' = TRUE
    /\ UNCHANGED <<nonConnVars, variant, st, rlock, wlock, sock, buf, stored, pc, op, ret,
                   oarg, hs, ofail, qi, lastOpen, lastRead, crashed>>

TaskStep(t) ==
    \/ OpenStep(t)
    \/ WLock(t)
    \/ WDrainOk(t)
    \/ WDrainRaise(t)

PollStep ==
    \/ ReadCall
    \/ FrameArrives
    \/ PartialArrives
    \/ ReadFalse
    \/ ReadReturn
    \/ HandleFrame

CallerStep ==
    \/ QlStart
    \/ QlQuery
    \/ QlDone
    \/ KaPing
    \/ CmdCall


(***************************************************************************)
(* The session manager: targets, connections, tasks                        *)
(***************************************************************************)
Targets == {"a", "a:23", "b"}

\* target.partition(':') and int(portstr or 23).
HostPortOf(t) == IF t = "b" THEN <<"b", 23>> ELSE <<"a", 23>>

HostPorts == {HostPortOf(t) : t \in Targets}

Kinds == {"poll", "ping"}

Loops == HostPorts \X Kinds

\* async_loop's awaitables: lutronclient.poll() and process_timers().
Tops == {"lutron", "timers"}

Zero == [l \in Loops |-> 0]

\* The dimmer ids of a target's ConfigParams: a target may have a section of
\* its own in the configuration, with its own integration report.
DimmersOf(t) == IF t = "a:23" THEN {3} ELSE {3, 4}

\* Lipservice.__init__: outputlevels[deviceid] = None for every known dimmer.
SeedLevels(t) == [d \in DimmersOf(t) |-> <<>>]

\* A lookup by target instead of by (host, port).
MissingPerTarget(t) == HostPortOf(t) \notin lips

\* `lips = self.hostport_to_lipservice.get((host, port))` finds nothing at
\* t's turn in the loop over the targets, which runs in registration order:
\* none was there before the loop and no earlier target made one.
Missing(t) == HostPortOf(t) \notin lips /\ firstOf[HostPortOf(t)] = t

MgrInit ==
    /\ registered = {}
    /\ lips = {}
    /\ running = Zero
    /\ finished = Zero
    /\ failed = Zero
    /\ mgr = "idle"
    /\ top = [c \in Tops |-> "run"]
    /\ asyncThread = "running"
    /\ mainThread = "serving"
    /\ fatal = FALSE
    /\ resub = FALSE
    /\ firstOf = [hp \in HostPorts |-> "none"]
    /\ nconn = [hp \in HostPorts |-> 0]
    /\ otable = [hp \in HostPorts |-> [made |-> FALSE, levels |-> <<>>]]
    /\ scrape = [target |-> "none", result |-> "none"]

\* The head of poll(): a Lipservice, and its poll and ping tasks, for every
\* registered target whose (host, port) has none; then asyncio.wait if any
\* task is pending, else asyncio.sleep(timeout).
MgrEnter ==
    /\ asyncThread = "running"
    /\ top["lutron"] = "run"
    /\ mgr = "idle"
    /\ LET new == {HostPortOf(t) : t \in registered} \ lips
       IN /\ lips' = lips \cup new
          /\ running' = [l \in Loops |->
                           IF l[1] \in new THEN running[l] + 1 ELSE running[l]]
          /\ mgr' = IF \E l \in Loops :
                          running'[l] + finished[l] + failed[l] > 0
                    THEN "waiting" ELSE "sleeping"
          /\ nconn' = [hp \in HostPorts |-> nconn[hp] +
                         Cardinality({t \in registered :
                                        HostPortOf(t) = hp /\ Missing(t)})]
          /\ otable' = [hp \in HostPorts |->
                          IF hp \in new
                          THEN [made |-> TRUE, levels |-> SeedLevels(firstOf[hp])]
                          ELSE otable[hp]]
    /\ UNCHANGED <<nonMgrVars, registered, finished, failed, top,
                   asyncThread, mainThread, fatal, resub, firstOf, scrape>>

\* A task that dropped a done task instead of resubmitting its continuation.
ResubmitDropsDone(run, fin) == run

\* `(done, self.tasks_pending) = await asyncio.wait(...)`, then
\* `self.tasks_pending.add(asyncio.create_task(task.result()))` per done
\* task: the pending tasks of a loop after the wait.
ResubmitDone(run, fin) == run + fin

\* asyncio.wait returns (with the done tasks, or none at the timeout).  If a
\* done task raised, task.result() re-raises out of poll(): the done tasks
\* visited before it were resubmitted, the others are in no set any more.
MgrWake ==
    /\ asyncThread = "running"
    /\ mgr = "waiting"
    /\ finished' = Zero
    /\ failed' = Zero
    /\ IF \A l \in Loops : failed[l] = 0
       THEN /\ running' = [l \in Loops |-> ResubmitDone(running[l], finished[l])]
            /\ resub' = (resub \/ \E l \in Loops : finished[l] > 0)
            /\ mgr' = "idle"
            /\ top' = [top EXCEPT !["lutron"] = "ret"]
       ELSE /\ \E S \in SUBSET {l \in Loops : finished[l] > 0} :
                  running' = [l \in Loops |->
                                IF l \in S
                                THEN ResubmitDone(running[l], finished[l])
                                ELSE running[l]]
            /\ mgr' = "raised"
            /\ top' = [top EXCEPT !["lutron"] = "exc"]
            /\ UNCHANGED resub
    /\ UNCHANGED <<nonMgrVars, registered, lips, asyncThread,
                   mainThread, fatal, firstOf, nconn, otable, scrape>>

\* No task at all: `await asyncio.sleep(timeout)`, and poll returns.
MgrSleepDone ==
    /\ asyncThread = "running"
    /\ mgr = "sleeping"
    /\ mgr' = "idle"
    /\ top' = [top EXCEPT !["lutron"] = "ret"]
    /\ UNCHANGED <<nonMgrVars, registered, lips, running, finished,
                   failed, asyncThread, mainThread, fatal, resub, firstOf, nconn, otable, scrape>>

\* Lipservice.poll / ping runs to its `return self.poll()` / `self.ping()`.
TaskReturn(l) ==
    /\ asyncThread = "running"
    /\ running[l] > 0
    /\ running' = [running EXCEPT ![l] = @ - 1]
    /\ finished' = [finished EXCEPT ![l] = @ + 1]
    /\ UNCHANGED <<nonMgrVars, registered, lips, failed, mgr, top,
                   asyncThread, mainThread, fatal, resub, firstOf, nconn, otable, scrape>>

\* Lipservice.poll / ping ends with an exception nothing in it handles.
TaskRaise(l) ==
    /\ asyncThread = "running"
    /\ running[l] > 0
    /\ running' = [running EXCEPT ![l] = @ - 1]
    /\ failed' = [failed EXCEPT ![l] = @ + 1]
    /\ UNCHANGED <<nonMgrVars, registered, lips, finished, mgr, top,
                   asyncThread, mainThread, fatal, resub, firstOf, nconn, otable, scrape>>

\* process_timers returns its continuation, or raises.
TimersStep ==
    /\ asyncThread = "running"
    /\ top["timers"] = "run"
    /\ \E r \in {"ret", "exc"} : top' = [top EXCEPT !["timers"] = r]
    /\ UNCHANGED <<nonMgrVars, registered, lips, running, finished,
                   failed, mgr, asyncThread, mainThread, fatal, resub, firstOf, nconn, otable, scrape>>

\* async_loop: asyncio.wait returns the done top-level tasks.  d.result()
\* raising leads to sys.exit(255) on the "asyncio loop" thread: SystemExit
\* ends asyncio.run, which cancels every task, and then that thread; the
\* main thread is not touched.  Otherwise each result is awaited next.
LoopWake ==
    /\ asyncThread = "running"
    /\ \E c \in Tops : top[c] \in {"ret", "exc"}
    /\ IF \E c \in Tops : top[c] = "exc"
       THEN /\ fatal' = TRUE
            /\ asyncThread' = "exited"
            /\ top' = [c \in Tops |-> "cancelled"]
            /\ running' = Zero
            /\ finished' = Zero
            /\ failed' = Zero
       ELSE /\ top' = [c \in Tops |-> IF top[c] = "ret" THEN "run" ELSE top[c]]
            /\ UNCHANGED <<fatal, asyncThread, running, finished, failed>>
    /\ UNCHANGED <<nonMgrVars, registered, lips, mgr, mainThread,
                   resub, firstOf, nconn, otable, scrape>>

\* get_lipservice_for_target: is there a Lipservice for t's (host, port)?
GetLipservice(t) == HostPortOf(t) \in lips

\* A collect that raises when there is no connection yet.
CollectResultRaises(t) == IF GetLipservice(t) THEN "metrics" ELSE "raised"

\* `if not lips: return []`, else the two metric families.
CollectResult(t) == IF GetLipservice(t) THEN "metrics" ELSE "empty"

\* collect(target) on a request thread: register_target, then the lookup
\* and the result.
Collect(t) ==
    /\ mainThread = "serving"
    /\ scrape' = [target |-> t, result |-> CollectResult(t)]
    /\ registered' = registered \cup {t}
    /\ firstOf' = IF firstOf[HostPortOf(t)] = "none"
                  THEN [firstOf EXCEPT ![HostPortOf(t)] = t]
                  ELSE firstOf
    /\ UNCHANGED <<nonMgrVars, lips, running, finished, failed, mgr,
                   top, asyncThread, mainThread, fatal, resub, nconn, otable>>

\* main(): the sleep loop is interrupted and the process ends, its daemon
\* threads with it.
Interrupt ==
    /\ mainThread = "serving"
    /\ mainThread' = "stopped"
    /\ asyncThread' = "exited"
    /\ top' = [c \in Tops |-> "cancelled"]
    /\ running' = Zero
    /\ finished' = Zero
    /\ failed' = Zero
    /\ UNCHANGED <<nonMgrVars, registered, lips, mgr, fatal, resub, firstOf, nconn, otable, scrape>>

(***************************************************************************)
(* One Lipservice's metrics state: Lipservice.poll (lutron.py 190-246)     *)
(* on the asyncio thread against LutronClient.collect (304-337) on a       *)
(* request thread.                                                         *)
(***************************************************************************)
MaxFrames == 2

Bridge == 1
SET == 1
RAISING == 2
LOWERING == 3
STOP == 4
PRESS == 3
RELEASE == 4

\* The Bridge and one standalone sensor.
DeviceIds == {Bridge, 2}

Components == {2, 4}

\* PRESS, RELEASE, and the hold and double-tap codes of Homeworks QS.
Buttons == {PRESS, RELEASE, 5, 6}

\* cfparams.deviceid_to_dimmertuple's keys, in the order of the config.
Dimmers == {3, 4}

\* An occupancy group: an id that no dimmer has.
Groups == {5}

\* The insertion order of outputlevels' keys.
AllIds == <<3, 4, 5>>

Levels == {0, 50}

Actions == {SET, RAISING, LOWERING, STOP, 29, 30}

None == <<>>

Some(x) == <<x>>

NoFrame == <<"", 0, 0, 0>>

\* What read() returns: a decoded frame (a, b, c, d), or four None.
Frames ==
    {<<"DEVICE", b, c, d>> : b \in DeviceIds, c \in Components, d \in Buttons}
    \cup {<<a, b, c, d>> : a \in {"OUTPUT", "SHADEGRP"}, b \in Dimmers,
                           c \in Actions, d \in Levels}
    \cup {<<"GROUP", b, 3, d>> : b \in Groups, d \in {3, 4, 255}}
    \cup {<<"GROUP", b, 4, 3>> : b \in Groups}
    \cup {<<"ERROR", 1, 2, 3>>, <<"None", 0, 0, 0>>}

\* dict.get(key, default) and dict[key] = value.
Get(m, k, dflt) == IF k \in DOMAIN m THEN m[k] ELSE dflt

Put(m, k, v) == [x \in DOMAIN m \cup {k} |-> IF x = k THEN v ELSE m[x]]

EmptyDict == [x \in {} |-> 0]

KeyOrder == SelectSeq(AllIds, LAMBDA k : k \in DOMAIN outputlevels)

\* What a scrape would show of a metrics state: the levels that are not
\* None, and the two counter maps.
ViewOf(ol, sc, dc) ==
    [levels |-> [k \in {x \in DOMAIN ol : ol[x] # None} |-> ol[k][1]],
     scenes |-> sc,
     devs |-> dc]

EmptySnap == [levels |-> EmptyDict, scenes |-> EmptyDict, devs |-> EmptyDict]

PollInit ==
    /\ outputlevels = [d \in Dimmers |-> None]
    /\ counts_by_scene_number = EmptyDict
    /\ counts_by_deviceid_component = EmptyDict
    /\ cv = "free"
    /\ ppc = "read"
    /\ cur = NoFrame
    /\ new_value = 0
    /\ nframes = 0
    /\ nobserved = 0
    /\ cpc = "idle"
    /\ ckeys = 0
    /\ ctodo = 0
    /\ snap = EmptySnap
    /\ cres = "none"
    /\ seen = {}

\* The metrics states that exist while a collect call is under way.
Track ==
    seen' = IF cpc \in {"levels", "counters"}
            THEN seen \cup {ViewOf(outputlevels', counts_by_scene_number',
                                   counts_by_deviceid_component')}
            ELSE seen

\* A poll that stores the level for RAISING as well.
OutputWritesOnRaising(action) == action \in {SET, RAISING}

\* `if action == liplib.LipServer.Action.SET`.
OutputWrites(action) == action = SET

\* A poll that takes every PRESS for a scene.
IsSceneAlways(deviceid) == TRUE

\* `if deviceid == 1: # then a scene was triggered`.
IsScene(deviceid) == deviceid = Bridge

\* GROUP's `val`.
GroupVal(param) == IF param = 3 THEN 100 ELSE IF param = 4 THEN 0 ELSE -1

\* outputlevels after poll has handled frame f: the branches of poll that
\* assign to it, none of them under cv.
LevelsAfter(f) ==
    IF f[1] \in {"OUTPUT", "SHADEGRP"} /\ OutputWrites(f[3])
    THEN Put(outputlevels, f[2], Some(f[4]))
    ELSE IF f[1] = "GROUP" /\ f[3] = 3
    THEN Put(outputlevels, f[2], Some(GroupVal(f[4])))
    ELSE outputlevels

\* poll from read() to the end of its branch; for a PRESS, to the `with
\* self.cv` of _increment_counter, new_value computed.  No branch calls the
\* reaction engine.
PollFrame(f) ==
    /\ ppc = "read"
    /\ f[1] # "None" => nframes < MaxFrames
    /\ cur' = f
    /\ nframes' = IF f[1] # "None" THEN nframes + 1 ELSE nframes
    /\ outputlevels' = LevelsAfter(f)
    /\ IF f[1] = "DEVICE" /\ f[4] = PRESS
       THEN /\ new_value' =
                  IF IsScene(f[2])
                  THEN Get(counts_by_scene_number, f[3], 0) + 1
                  ELSE Get(counts_by_deviceid_component, <<f[2], f[3]>>, 0) + 1
            /\ ppc' = "inc"
       ELSE /\ new_value' = 0
            /\ ppc' = "ret"
    /\ UNCHANGED <<nonPollVars, counts_by_scene_number,
                   counts_by_deviceid_component, cv, nobserved, cpc, ckeys,
                   ctodo, snap, cres>>
    /\ Track

\* `with self.cv: map_of_counters[key] = new_value`.
PollIncWrite ==
    /\ ppc = "inc"
    /\ cv = "free"
    /\ IF IsScene(cur[2])
       THEN /\ counts_by_scene_number' =
                  Put(counts_by_scene_number, cur[3], new_value)
            /\ UNCHANGED counts_by_deviceid_component
       ELSE /\ counts_by_deviceid_component' =
                  Put(counts_by_deviceid_component, <<cur[2], cur[3]>>,
                      new_value)
            /\ UNCHANGED counts_by_scene_number
    /\ ppc' = "ret"
    /\ UNCHANGED <<nonPollVars, outputlevels, cv, cur, new_value,
                   nframes, nobserved, cpc, ckeys, ctodo, snap, cres>>
    /\ Track

\* `return self.poll()`, and the manager runs the continuation.
PollResubmit ==
    /\ ppc = "ret"
    /\ ppc' = "read"
    /\ cur' = NoFrame
    /\ new_value' = 0
    /\ UNCHANGED <<nonPollVars, outputlevels, counts_by_scene_number,
                   counts_by_deviceid_component, cv, nframes, nobserved, cpc,
                   ckeys, ctodo, snap, cres, seen>>

\* collect: `with lips.cv:` and the start of the iteration over
\* outputlevels.keys().
CollectEnter ==
    /\ cpc = "idle"
    /\ cv = "free"
    /\ cv' = "collect"
    /\ cpc' = "levels"
    /\ ckeys' = Cardinality(DOMAIN outputlevels)
    /\ ctodo' = 1
    /\ snap' = EmptySnap
    /\ cres' = "none"
    /\ seen' = {ViewOf(outputlevels, counts_by_scene_number,
                       counts_by_deviceid_component)}
    /\ UNCHANGED <<nonPollVars, outputlevels, counts_by_scene_number,
                   counts_by_deviceid_component, ppc, cur, new_value, nframes,
                   nobserved>>

\* One step of `for deviceid in lips.outputlevels.keys()`: the iterator
\* raises RuntimeError if the dictionary has changed size, ends after the
\* last key, or yields the next key, whose level goes to the gauge unless it
\* is None.
CollectLevel ==
    /\ cpc = "levels"
    /\ IF Cardinality(DOMAIN outputlevels) # ckeys
       THEN /\ cv' = "free"
            /\ cpc' = "done"
            /\ cres' = "raised"
            /\ UNCHANGED <<ctodo, snap>>
       ELSE IF ctodo > ckeys
       THEN /\ cpc' = "counters"
            /\ UNCHANGED <<cv, cres, ctodo, snap>>
       ELSE /\ LET k == KeyOrder[ctodo]
               IN snap' = IF outputlevels[k] # None
                          THEN [snap EXCEPT !.levels =
                                    Put(@, k, outputlevels[k][1])]
                          ELSE snap
            /\ ctodo' = ctodo + 1
            /\ UNCHANGED <<cv, cpc, cres>>
    /\ UNCHANGED <<nonPollVars, outputlevels, counts_by_scene_number,
                   counts_by_deviceid_component, ppc, cur, new_value, nframes,
                   nobserved, ckeys, seen>>

\* A collect that leaves the block without releasing cv.
ReleaseForgotten(holder) == holder

\* The end of `with lips.cv:`.
Release(holder) == "free"

\* The two loops over the counter maps, whose writers hold cv, and the end
\* of the `with` block.
CollectCounters ==
    /\ cpc = "counters"
    /\ snap' = [snap EXCEPT !.scenes = counts_by_scene_number,
                            !.devs = counts_by_deviceid_component]
    /\ cv' = Release(cv)
    /\ cpc' = "done"
    /\ cres' = "ok"
    /\ UNCHANGED <<nonPollVars, outputlevels, counts_by_scene_number,
                   counts_by_deviceid_component, ppc, cur, new_value, nframes,
                   nobserved, ckeys, ctodo, seen>>

\* The request is answered; the next scrape may begin.
CollectReturn ==
    /\ cpc = "done"
    /\ cpc' = "idle"
    /\ ckeys' = 0
    /\ ctodo' = 0
    /\ snap' = EmptySnap
    /\ cres' = "none"
    /\ seen' = {}
    /\ UNCHANGED <<nonPollVars, outputlevels, counts_by_scene_number,
                   counts_by_deviceid_component, cv, ppc, cur, new_value,
                   nframes, nobserved>>

(***************************************************************************)
(* The reaction engine: Brainstem.run (brainstem.py 143-169) and           *)
(* Brainstem.observe_event (171-182), over a configuration in the shape of *)
(* test_brainstem.py's.                                                    *)
(***************************************************************************)
\* The three shapes of a step: a str, a list shorter than 4, a longer list.
Nested(n) == [k |-> "str", name |-> n, args |-> <<>>]

Short(funcname, args) == [k |-> "short", name |-> funcname, args |-> args]

Dispatch(module, target, selector, command, args) ==
    [k |-> "long", name |-> module, args |-> <<target, selector, command, args>>]

\* config['brainstem']['actions'].
BActions ==
    [pump_on |-> <<Dispatch("module", "target", "sel", "on", <<>>),
                   Dispatch("module", "target2", "sel", "yeah", <<>>)>>,
     pump_off |-> <<Dispatch("module", "target", "sel", "off",
                             <<"the", "best", "arg">>)>>,
     limited |-> <<Dispatch("lutron", "bridge", "sel", "one", <<>>),
                   Short("ratelimit", <<10>>),
                   Dispatch("lutron", "bridge", "sel", "two", <<>>)>>,
     evening |-> <<Dispatch("lutron", "bridge", "sel", "dim", <<>>),
                   Short("note", <<"a", "b">>),
                   Nested("pump_on"),
                   Dispatch("lutron", "bridge", "sel", "off", <<>>)>>,
     night |-> <<Nested("evening"),
                 Dispatch("module", "target", "sel", "lock", <<>>)>>,
     guarded |-> <<Nested("limited"),
                   Dispatch("module", "target", "sel", "after", <<>>)>>]

ActionNames == DOMAIN BActions

\* register_modules' map.
ModuleToClient == [module |-> "mockmodule", lutron |-> "lutronclient"]

\* `await client.run(target, selector, command, *args)`: who is called,
\* with what.
CallOf(step) ==
    <<ModuleToClient[step.name], step.args[1], step.args[2], step.args[3],
      step.args[4]>>

\* The calls of a sequence from step i on, nested sequences in place.
RECURSIVE FlatSeq(_, _)
FlatSeq(seq, i) ==
    IF i > Len(seq) THEN <<>>
    ELSE (IF seq[i].k = "str" THEN FlatSeq(BActions[seq[i].name], 1)
          ELSE IF seq[i].k = "long" THEN <<CallOf(seq[i])>>
          ELSE <<>>) \o FlatSeq(seq, i + 1)

IsPrefix(x, y) == Len(x) <= Len(y) /\ SubSeq(y, 1, Len(x)) = x

\* A selector: a tuple or a list of a discriminator, a string and the rest.
\* Strings are sequences of characters.
Sel(kind, f0, f1, rest) == [kind |-> kind, f |-> <<f0, f1>> \o rest]

Strs == {<<"d">>, <<"d", "e">>, <<"d", "e", "s">>}

\* What the modules may report for ('module', 'target').
Observed ==
    {Sel(kind, f0, f1, <<r>>) : kind \in {"tuple", "list"}, f0 \in {100, 200},
                                f1 \in Strs, r \in {7, 8}}

\* self.reactions['module']['target'], in insertion order; the keys are
\* tuple(selector).
Reactions ==
    <<[sel |-> Sel("tuple", 100, <<"d", "e">>, <<7>>), cmd |-> "pump_on"],
      [sel |-> Sel("tuple", 300, <<"d", "e">>, <<8>>), cmd |-> "pump_off"],
      [sel |-> Sel("tuple", 200, <<"d">>, <<7>>), cmd |-> "evening"]>>

NoObs == [kind |-> "none", f |-> <<>>]

\* `x in y` for two strings.
IsSubstr(x, y) ==
    \E i \in 1..(Len(y) - Len(x) + 1) : SubSeq(y, i, i + Len(x) - 1) = x

\* `sel[2:] == selector[2:]`: a tuple and a list are never equal.
SliceEq(sel, selector) ==
    /\ sel.kind = selector.kind
    /\ SubSeq(sel.f, 3, Len(sel.f)) = SubSeq(selector.f, 3, Len(selector.f))

\* The condition of observe_event, sel the registered selector.
Matches(sel, selector) ==
    /\ sel.f[1] = selector.f[1] \/ IsSubstr(sel.f[2], selector.f[2])
    /\ SliceEq(sel, selector)

\* An observe_event that goes through all reactions and answers with the
\* last match.
RECURSIVE ObserveLast(_, _)
ObserveLast(i, selector) ==
    IF i > Len(Reactions) THEN "None"
    ELSE IF ObserveLast(i + 1, selector) # "None"
         THEN ObserveLast(i + 1, selector)
    ELSE IF Matches(Reactions[i].sel, selector) THEN Reactions[i].cmd
    ELSE "None"

\* The loop of observe_event from reaction i on: the first match answers.
RECURSIVE ObserveFrom(_, _)
ObserveFrom(i, selector) ==
    IF i > Len(Reactions) THEN "None"
    ELSE IF Matches(Reactions[i].sel, selector) THEN Reactions[i].cmd
    ELSE ObserveFrom(i + 1, selector)

MaxCalls == 12

\* CircularBuffer(10).
BufferSize == 10

\* A buffer that refuses the new item when it is full.
AddKeepsOldest(items, item) ==
    IF Len(items) < BufferSize THEN Append(items, item) ELSE items

\* CircularBuffer.add: append, and delete items[0] if that made the list
\* longer than size.
Add(items, item) ==
    IF Len(items) + 1 <= BufferSize THEN Append(items, item)
    ELSE Tail(Append(items, item))

\* `self.eventbuffer.add((datetime.now(timezone.utc), ...))`, the first
\* statement of run and the second of observe_event; of the entry the
\* time is kept, which is the number of the call.
Log ==
    /\ ncalls' = ncalls + 1
    /\ eventbuffer' = Add(eventbuffer, ncalls + 1)

BrainInit ==
    /\ bstack = <<>>
    /\ bact = "None"
    /\ blog = <<>>
    /\ bres = "idle"
    /\ bexc = "none"
    /\ bobs = NoObs
    /\ bcmd = "None"
    /\ bkey = <<>>
    /\ eventbuffer = <<>>
    /\ ncalls = 0
    /\ ratelimits = <<>>

\* observe_event('module', 'target', selector).
Observe(selector) ==
    /\ ncalls < MaxCalls
    /\ Log
    /\ bobs' = selector
    /\ bkey' = <<"module", "target">>
    /\ bcmd' = ObserveFrom(1, selector)
    /\ UNCHANGED <<nonBrainVars, ratelimits, bstack, bact, blog, bres, bexc>>

\* observe_event('othermodule', 'whatever', selector): the two gets give
\* {}, the loop has nothing to visit and None is returned.
ObserveElsewhere(selector) ==
    /\ ncalls < MaxCalls
    /\ Log
    /\ bobs' = selector
    /\ bkey' = <<"othermodule", "whatever">>
    /\ bcmd' = "None"
    /\ UNCHANGED <<nonBrainVars, ratelimits, bstack, bact, blog, bres, bexc>>

\* A coroutine run(action) is scheduled: by the timers, or as the reaction
\* that observe_event returned.
RunStart(a) ==
    /\ bres \in {"idle", "returned", "raised"}
    /\ ncalls < MaxCalls
    /\ Log
    /\ bstack' = <<[a |-> a, i |-> 1]>>
    /\ bact' = a
    /\ blog' = <<>>
    /\ bres' = "running"
    /\ bexc' = "none"
    /\ UNCHANGED <<nonBrainVars, ratelimits, bobs, bcmd, bkey>>

\* A run that goes on two steps further.
SkipsAStep(i) == i + 2

\* `for a in seq`: the step after step i.
AfterStep(i) == i + 1

Top == bstack[Len(bstack)]

Rest == SubSeq(bstack, 1, Len(bstack) - 1)

\* An exception that only leaves the innermost run.
UnwindOneFrame(stack) == SubSeq(stack, 1, Len(stack) - 1)

\* No run has a handler: an exception leaves every enclosing run.
Unwind(stack) == <<>>

\* One turn of run's loop, up to the next await or return.  `now =
\* time.time()` is an AttributeError: brainstem.py imports `time` from
\* datetime, the class, which has no attribute `time`.
RunStep ==
    /\ bres = "running"
    /\ LET seq == BActions[Top.a]
           i == Top.i
       IN IF i > Len(seq)
          THEN /\ bstack' = Rest
               /\ bres' = IF Rest = <<>> THEN "returned" ELSE "running"
               /\ UNCHANGED <<blog, bexc, eventbuffer, ncalls>>
          ELSE IF seq[i].k = "str"
          THEN /\ bstack' = Append(Rest, [a |-> Top.a, i |-> AfterStep(i)])
                            \o <<[a |-> seq[i].name, i |-> 1]>>
               /\ Log
               /\ UNCHANGED <<blog, bres, bexc>>
          ELSE IF seq[i].k = "short"
          THEN IF seq[i].name = "ratelimit" /\ Len(seq[i].args) = 1
               THEN /\ bstack' = Unwind(bstack)
                    /\ bres' = "raised"
                    /\ bexc' = "AttributeError"
                    /\ UNCHANGED <<blog, eventbuffer, ncalls>>
               ELSE /\ bstack' = Append(Rest, [a |-> Top.a, i |-> AfterStep(i)])
                    /\ UNCHANGED <<blog, bres, bexc, eventbuffer, ncalls>>
          ELSE /\ blog' = Append(blog, CallOf(seq[i]))
               /\ bres' = "awaiting"
               /\ UNCHANGED <<bstack, bexc, eventbuffer, ncalls>>
    /\ UNCHANGED <<nonBrainVars, ratelimits, bact, bobs, bcmd, bkey>>

\* client.run returns.
ClientReturn ==
    /\ bres = "awaiting"
    /\ bstack' = Append(Rest, [a |-> Top.a, i |-> AfterStep(Top.i)])
    /\ bres' = "running"
    /\ UNCHANGED <<nonBrainVars, ratelimits, bact, blog, bexc, bobs, bcmd, bkey, eventbuffer, ncalls>>

\* client.run raises.
ClientRaise ==
    /\ bres = "awaiting"
    /\ bstack' = Unwind(bstack)
    /\ bres' = IF bstack' = <<>> THEN "raised" ELSE "running"
    /\ bexc' = "client"
    /\ UNCHANGED <<nonBrainVars, ratelimits, bact, blog, bobs, bcmd, bkey, eventbuffer, ncalls>>

(***************************************************************************)
(* The daily timers: Timers.__init__ (brainstem.py 25-40) and              *)
(* Timers.process_timers (45-71), against a clock that only moves forward. *)
(***************************************************************************)
MaxDay == 2

DaySeconds == 86400

\* config['brainstem']['timers']: (hhmmss, action).
TimerConf == {<<40001, "pump_on">>, <<40000, "pump_off">>}

\* cnv: '%06d' % hhmmss read as %H%M%S, in seconds of the day.
Cnv(hhmmss) ==
    (hhmmss \div 10000) * 3600 + ((hhmmss \div 100) % 100) * 60
        + (hhmmss % 100)

\* The times of day at which the clock is looked at: midnight, 03:59:59,
\* 04:00:00, 04:00:01 and 15:00:00.
TodGrid == {0, 14399, 14400, 14401, 54000}

Instants == {d * DaySeconds + tod : d \in 0..MaxDay, tod \in TodGrid}

\* now.date().
DateOf(t) == t \div DaySeconds

\* datetime.combine(day, t) for every configured timer.
EntriesOn(day) == {<<day * DaySeconds + Cnv(c[1]), c[2]>> : c \in TimerConf}

\* heap[0]: the entry with the earliest instant.
HeapTop(h) == CHOOSE x \in h : \A y \in h : x[1] <= y[1]

\* The entries of h in the order heappop yields them.
RECURSIVE HeapOrder(_)
HeapOrder(h) ==
    IF h = {} THEN <<>> ELSE <<HeapTop(h)>> \o HeapOrder(h \ {HeapTop(h)})

\* A timer that is due only once its instant has passed.
DueStrictly(future) == future < 0

\* `if future <= 0`.
Due(future) == future <= 0

\* A midnight taken at the start of the reference date.
MidnightOfToday(day) == day * DaySeconds

\* datetime.combine(self.today + timedelta(days=1), time(), tzinfo=utc).
Midnight(day) == (day + 1) * DaySeconds

\* Timers.__init__ at the instant t0: the timers of the day not yet past.
TimerInitAt(t0) ==
    /\ tnow = t0
    /\ today = DateOf(t0)
    /\ heap_of_timers = {x \in EntriesOn(DateOf(t0)) : x[1] >= t0}
    /\ tpc = "ready"
    /\ tcall = t0
    /\ tsleep = 0
    /\ tfired = <<>>
    /\ theap0 = {}
    /\ ttoday0 = DateOf(t0)

\* Time passes.
Tick ==
    /\ \E t \in Instants : t > tnow /\ tnow' = t
    /\ UNCHANGED <<nonTimerVars, today, heap_of_timers, tpc, tcall, tsleep,
                   tfired, theap0, ttoday0>>

\* process_timers is run: `now`, and the date test.
TimerEnter ==
    /\ tpc = "ready"
    /\ tcall' = tnow
    /\ theap0' = heap_of_timers
    /\ ttoday0' = today
    /\ tfired' = <<>>
    /\ tsleep' = 0
    /\ IF today < DateOf(tnow)
       THEN today' = DateOf(tnow) /\ tpc' = "catchup"
       ELSE today' = today /\ tpc' = "check"
    /\ UNCHANGED <<nonTimerVars, tnow, heap_of_timers>>

\* The catch-up loop: pop and `await self.run(action)`, or the end of the
\* loop and the new day's heap.
CatchUp ==
    /\ tpc = "catchup"
    /\ IF heap_of_timers # {}
       THEN /\ heap_of_timers' = heap_of_timers \ {HeapTop(heap_of_timers)}
            /\ tfired' = Append(tfired, HeapTop(heap_of_timers))
            /\ tpc' = "catchrun"
       ELSE /\ heap_of_timers' = EntriesOn(today)
            /\ tpc' = "check"
            /\ UNCHANGED tfired
    /\ UNCHANGED <<nonTimerVars, tnow, today, tcall, tsleep, theap0, ttoday0>>

\* The action of a catch-up entry has run.
CatchRunReturn ==
    /\ tpc = "catchrun"
    /\ tpc' = "catchup"
    /\ UNCHANGED <<nonTimerVars, tnow, today, heap_of_timers, tcall, tsleep,
                   tfired, theap0, ttoday0>>

\* The action of a catch-up entry raises: line 52 is in no try block, the
\* exception leaves process_timers.
CatchRunRaise ==
    /\ tpc = "catchrun"
    /\ tpc' = "raised"
    /\ UNCHANGED <<nonTimerVars, tnow, today, heap_of_timers, tcall, tsleep,
                   tfired, theap0, ttoday0>>

\* Lines 56-70: fire the earliest entry if it is due, else return a sleep
\* until it is; with no entry, a sleep until midnight.
TimerCheck ==
    /\ tpc = "check"
    /\ IF heap_of_timers # {}
       THEN LET future == HeapTop(heap_of_timers)[1] - tcall
            IN IF Due(future)
               THEN /\ heap_of_timers' =
                          heap_of_timers \ {HeapTop(heap_of_timers)}
                    /\ tfired' = Append(tfired, HeapTop(heap_of_timers))
                    /\ tpc' = "firing"
                    /\ UNCHANGED tsleep
               ELSE /\ tsleep' = future
                    /\ tpc' = "sleeping"
                    /\ UNCHANGED <<heap_of_timers, tfired>>
       ELSE /\ tsleep' = Midnight(today) - tcall
            /\ tpc' = "sleeping"
            /\ UNCHANGED <<heap_of_timers, tfired>>
    /\ UNCHANGED <<nonTimerVars, tnow, today, tcall, theap0, ttoday0>>

\* The due entry's action has run, or has raised into the `except
\* Exception`: `return self.process_timers()`.
FireDone ==
    /\ tpc = "firing"
    /\ tpc' = "ready"
    /\ UNCHANGED <<nonTimerVars, tnow, today, heap_of_timers, tcall, tsleep,
                   tfired, theap0, ttoday0>>

\* The sleep is over and hands back process_timers().
TimerWake ==
    /\ tpc = "sleeping"
    /\ tnow >= tcall + tsleep
    /\ tpc' = "ready"
    /\ UNCHANGED <<nonTimerVars, tnow, today, heap_of_timers, tcall, tsleep,
                   tfired, theap0, ttoday0>>

(***************************************************************************)
(* The keep-alive: Lipservice.ping (lutron.py 176-182) against the frames  *)
(* poll receives (190-246) and Lipservice.open (164-168), on a clock.      *)
(***************************************************************************)
MaxTime == 1800

PingTimeout == 600

\* The clock is looked at every five minutes.
ClockStep == {300}

\* The kinds of frame read() decodes.
FrameKinds == {"DEVICE", "OUTPUT", "SHADEGRP", "GROUP", "ERROR"}

\* The branches of poll that set `self.last_ping = time.time()`.
RefreshesPing(a) == a \in {"DEVICE", "OUTPUT", "SHADEGRP"}

KaInit ==
    /\ know = 0
    /\ last_ping = 0
    /\ kpc = "check"
    /\ kwake = 0
    /\ ktraffic = 0
    /\ kidle = PingTimeout

KaTick ==
    /\ know < MaxTime
    /\ \E d \in ClockStep : know' = know + d
    /\ UNCHANGED <<nonKaVars, last_ping, kpc, kwake, ktraffic, kidle>>

\* poll receives a frame of kind a.
KaFrame(a) ==
    /\ ktraffic' = know
    /\ last_ping' = IF RefreshesPing(a) THEN know ELSE last_ping
    /\ UNCHANGED <<nonKaVars, know, kpc, kwake, kidle>>

\* Lipservice.open, from poll after a failed read.
KaOpen ==
    /\ ktraffic' = know
    /\ last_ping' = know
    /\ UNCHANGED <<nonKaVars, know, kpc, kwake, kidle>>

\* The test of ping's while loop: sleep until last_ping + ping_timeout, or
\* leave the loop, set last_ping and call lipserver.ping().
KaCheck ==
    /\ kpc = "check"
    /\ IF last_ping + PingTimeout > know
       THEN /\ kwake' = last_ping + PingTimeout
            /\ kpc' = "sleeping"
            /\ UNCHANGED <<last_ping, kidle>>
       ELSE /\ last_ping' = know
            /\ kidle' = know - ktraffic
            /\ kpc' = "pinging"
            /\ UNCHANGED kwake
    /\ UNCHANGED <<nonKaVars, know, ktraffic>>

\* The sleep is over.
KaWake ==
    /\ kpc = "sleeping"
    /\ know >= kwake
    /\ kpc' = "check"
    /\ UNCHANGED <<nonKaVars, know, last_ping, kwake, ktraffic, kidle>>

\* lipserver.ping() has written and drained #PING: `return self.ping()`.
KaPingSent ==
    /\ kpc = "pinging"
    /\ ktraffic' = know
    /\ kpc' = "ret"
    /\ UNCHANGED <<nonKaVars, know, last_ping, kwake, kidle>>

\* lipserver.ping()'s drain raises (liplib.py 256-257 has no handler), and
\* so does Lipservice.ping.
KaPingRaise ==
    /\ kpc = "pinging"
    /\ kpc' = "raised"
    /\ UNCHANGED <<nonKaVars, know, last_ping, kwake, ktraffic, kidle>>

\* The manager runs the continuation.
KaResubmit ==
    /\ kpc = "ret"
    /\ kpc' = "check"
    /\ UNCHANGED <<nonKaVars, know, last_ping, kwake, ktraffic, kidle>>

(***************************************************************************)
(* _read_until (liplib.py 169-193, illiplib.py 141-165) on a byte stream   *)
(* that reader.read returns in pieces of any size.  A byte is a string;    *)
(* "CR" and "LF" are the bytes 13 and 10.                                  *)
(***************************************************************************)
MaxPieces == 2

READ_SIZE == 1024

\* The class of a byte in RESPONSE_RE: [A-Z], [0-9.] or the byte itself.
ClassOf(c) ==
    IF c \in {"A", "O"} THEN "upper"
    ELSE IF c \in {"1", "."} THEN "digit"
    ELSE c

\* b"~([A-Z]+),([0-9.]+),([0-9.]+),([0-9.]+)\r\n": the classes in order,
\* with TRUE for the ones under a +.
RESPONSE_RE ==
    << <<"~", FALSE>>, <<"upper", TRUE>>, <<",", FALSE>>, <<"digit", TRUE>>,
       <<",", FALSE>>, <<"digit", TRUE>>, <<",", FALSE>>, <<"digit", TRUE>>,
       <<"CR", FALSE>>, <<"LF", FALSE>> >>

\* DEFAULT_PROMPT, shortened to three bytes.
PROMPT == <<"G", ">", " ">>

\* The pattern matched at b[i] from its k-th element on: the index of the
\* last byte of the match, or 0.  No two neighbours of the pattern share a
\* byte, so the greedy match is the only one.
RECURSIVE MatchFrom(_, _, _, _)
MatchFrom(b, i, k, some) ==
    IF k > Len(RESPONSE_RE) THEN i - 1
    ELSE IF i <= Len(b) /\ ClassOf(b[i]) = RESPONSE_RE[k][1]
         THEN IF RESPONSE_RE[k][2]
              THEN MatchFrom(b, i + 1, k, TRUE)
              ELSE MatchFrom(b, i + 1, k + 1, FALSE)
         ELSE IF RESPONSE_RE[k][2] /\ some
              THEN MatchFrom(b, i, k + 1, FALSE)
              ELSE 0

Least(S) == CHOOSE i \in S : \A j \in S : i <= j

\* value.search(buffer) or buffer.find(value): <<first, last>> of the
\* leftmost match, <<>> without one.
Locate(b, v) ==
    IF v = "re"
    THEN LET S == {i \in 1..Len(b) : MatchFrom(b, i, 1, FALSE) > 0}
         IN IF S = {} THEN <<>>
            ELSE <<Least(S), MatchFrom(b, Least(S), 1, FALSE)>>
    ELSE LET S == {i \in 1..(Len(b) - Len(PROMPT) + 1) :
                     SubSeq(b, i, i + Len(PROMPT) - 1) = PROMPT}
         IN IF S = {} THEN <<>>
            ELSE <<Least(S), Least(S) + Len(PROMPT) - 1>>

\* What a successful call returns: the match object (its group 0), or
\* the buffer up to and with the literal.
Returned(b, v, m) ==
    IF v = "re" THEN SubSeq(b, m[1], m[2]) ELSE SubSeq(b, 1, m[2])

\* A _read_until that forgets the bytes read after the match.
KeepNothing(b, m) == <<>>

\* `self._read_buffer = self._read_buffer[match.end():]`.
KeepAfter(b, m) == SubSeq(b, m[2] + 1, Len(b))

\* What the calls return when the whole of s is in the buffer at once.
RECURSIVE AtOnce(_, _)
AtOnce(s, v) ==
    LET m == Locate(s, v)
    IN IF m = <<>> THEN <<>>
       ELSE <<Returned(s, v, m)>> \o AtOnce(SubSeq(s, m[2] + 1, Len(s)), v)

\* What a peer sends: a frame, a frame cut short, the end of a line, and
\* the prompt.
Pieces ==
    { <<"~", "A", ",", "1", ",", "1", ",", "1", "CR", "LF">>,
      <<"~", "O", ",", "1", ".">>,
      <<"1", "CR", "LF">>,
      PROMPT }

RECURSIVE StreamsOf(_)
StreamsOf(n) ==
    IF n = 0 THEN {<<>>}
    ELSE StreamsOf(n - 1) \cup
         {s \o q : s \in StreamsOf(n - 1), q \in Pieces}

RuInitAt(s, v) ==
    /\ rstream0 = s
    /\ rdata = s
    /\ read_buffer = <<>>
    /\ value = v
    /\ rupc = "search"
    /\ ruout = <<>>
    /\ rupartial = FALSE

\* The top of the loop: a match is cut off the buffer and returned, and
\* the next call begins; without one the call goes on to read.
RuSearch ==
    /\ rupc = "search"
    /\ LET m == Locate(read_buffer, value)
       IN IF m # <<>>
          THEN /\ ruout' = Append(ruout, Returned(read_buffer, value, m))
               /\ read_buffer' = KeepAfter(read_buffer, m)
               /\ UNCHANGED <<rupc, rupartial>>
          ELSE /\ rupc' = "read"
               /\ rupartial' = (rupartial \/ read_buffer # <<>>)
               /\ UNCHANGED <<ruout, read_buffer>>
    /\ UNCHANGED <<nonRuVars, rstream0, rdata, value>>

\* reader.read(READ_SIZE) returns the next n bytes.
RuRead(n) ==
    /\ rupc = "read"
    /\ n <= Len(rdata)
    /\ n <= READ_SIZE
    /\ read_buffer' = read_buffer \o SubSeq(rdata, 1, n)
    /\ rdata' = SubSeq(rdata, n + 1, Len(rdata))
    /\ rupc' = "search"
    /\ UNCHANGED <<nonRuVars, rstream0, value, ruout, rupartial>>

\* The peer has closed: reader.read returns b'' and the call False.
RuEmptyRead ==
    /\ rupc = "read"
    /\ rdata = <<>>
    /\ ruout' = Append(ruout, "False")
    /\ rupc' = "eof"
    /\ UNCHANGED <<nonRuVars, rstream0, rdata, read_buffer, value, rupartial>>

\* reader.read raises OSError: caught, and the call returns False.
RuOSError ==
    /\ rupc = "read"
    /\ ruout' = Append(ruout, "False")
    /\ rupc' = "oserror"
    /\ UNCHANGED <<nonRuVars, rstream0, rdata, read_buffer, value, rupartial>>

(***************************************************************************)
(* The device directory: ConfigParams.process_integration_report           *)
(* (lutron.py 74-109), dump_integration_yaml_string (127-139), the YAML    *)
(* it writes as yaml.safe_load reads it, and _process_integration_yaml     *)
(* (111-125).  A name is a sequence of characters; "Button " stands for    *)
(* those seven.                                                            *)
(***************************************************************************)
Names == {<<"a">>, <<"a", "'", "s">>}

ButtonName == <<"Button ", "1">>

\* The area of a device without one is ''.
AreaNames == {<<>>, <<"k">>}

\* sorted(): '' comes before 'k'.
AreaOrder == << <<>>, <<"k">> >>

Btn(number, name) == [Number |-> number, Name |-> name]

Dev(id, name, area, buttons) ==
    [ID |-> id, Name |-> name, Area |-> area, Buttons |-> buttons]

\* The buttons of the Smart Bridge (device 1): plain buttons and scenes.
BridgeButtons ==
    {<<>>, <<Btn(1, ButtonName)>>}
        \cup {<<Btn(2, n)>> : n \in Names}
        \cup {<<Btn(1, ButtonName), Btn(2, n)>> : n \in Names}

\* A Pico with two buttons or an occupancy sensor with none, or no sensor.
SensorLists ==
    {<<>>} \cup
    {<<Dev(2, n, a, bs)>> :
        n \in Names, a \in AreaNames,
        bs \in {<<>>, <<Btn(2, <<>>), Btn(4, <<>>)>>}}

ZoneLists ==
    {<<>>}
        \cup {<<Dev(3, <<"a">>, a, <<>>)>> : a \in AreaNames}
        \cup {<<Dev(3, <<"a">>, a, <<>>), Dev(4, <<"a", "'", "s">>, <<"k">>, <<>>)>> :
                a \in AreaNames}

\* js['LIPIdList'] of the reports the Lutron app writes: integration ids
\* are unique.
Reports ==
    {[Devices |-> <<Dev(1, <<"b">>, <<>>, bb)>> \o sl, Zones |-> zl] :
        bb \in BridgeButtons, sl \in SensorLists, zl \in ZoneLists}

NoReport == [Devices |-> <<>>, Zones |-> <<>>]

NoMaps ==
    [scenes |-> Some(EmptyDict), sensors |-> EmptyDict,
     dimmers |-> EmptyDict, areas |-> Some(EmptyDict)]

StartsWithButton(name) == name # <<>> /\ name[1] = "Button "

\* The loop over the bridge's buttons, after k of them.
RECURSIVE SceneButtons(_, _, _)
SceneButtons(sc, bs, k) ==
    IF k = 0 THEN sc
    ELSE LET p == SceneButtons(sc, bs, k - 1)
         IN IF StartsWithButton(bs[k].Name) THEN p
            ELSE Put(p, bs[k].Number, bs[k].Name)

Numbers(bs) == [i \in 1..Len(bs) |-> bs[i].Number]

\* add_device.
AddDevice(ar, a, t) ==
    IF a \in DOMAIN ar THEN [ar EXCEPT ![a] = Append(@, t)]
    ELSE Put(ar, a, <<t>>)

\* One turn of `for device in lipidlist.get('Devices', [])`.
ImportDevice(m, d) ==
    IF d.ID = 1
    THEN [m EXCEPT !.scenes =
             Some(SceneButtons(m.scenes[1], d.Buttons, Len(d.Buttons)))]
    ELSE [m EXCEPT
            !.sensors = Put(@, d.ID, <<d.Name, d.Area, Numbers(d.Buttons)>>),
            !.areas = Some(AddDevice(@[1], d.Area,
                                     <<d.ID, d.Name, Numbers(d.Buttons)>>))]

\* A zone that is put into the sensor map as well.
ImportZoneAsBoth(m, z) ==
    [m EXCEPT !.dimmers = Put(@, z.ID, <<z.Name, z.Area>>),
              !.sensors = Put(@, z.ID, <<z.Name, z.Area, <<>>>>),
              !.areas = Some(AddDevice(@[1], z.Area, <<z.ID, z.Name>>))]

\* One turn of `for device in lipidlist.get('Zones', [])`.
ImportZone(m, z) ==
    [m EXCEPT !.dimmers = Put(@, z.ID, <<z.Name, z.Area>>),
              !.areas = Some(AddDevice(@[1], z.Area, <<z.ID, z.Name>>))]

ImportSteps(r) == Len(r.Devices) + Len(r.Zones)

\* process_integration_report after the four maps were emptied and k turns
\* of its two loops were made.
RECURSIVE ImportFirst(_, _)
ImportFirst(r, k) ==
    IF k = 0 THEN NoMaps
    ELSE IF k <= Len(r.Devices)
         THEN ImportDevice(ImportFirst(r, k - 1), r.Devices[k])
         ELSE ImportZone(ImportFirst(r, k - 1), r.Zones[k - Len(r.Devices)])

\* "'%s'" % name.
Quote(name) == <<"'">> \o name \o <<"'">>

\* '[%s]' % ', '.join([str(devid), "'%s'" % dname] + [str(b) for b in
\* buttons]): the numbers, and the list of numbers of a sensor, are read
\* back by YAML as what they were.
DumpItem(t) == [id |-> t[1], name |-> Quote(t[2]), rest |-> SubSeq(t, 3, Len(t))]

\* dump_integration_yaml_string: the document, its scalars as written.
Dump(m) ==
    [scenes |-> [i \in DOMAIN m.scenes[1] |-> Quote(m.scenes[1][i])],
     areas |-> [a \in DOMAIN m.areas[1] |->
                  [key |-> Quote(a),
                   items |-> [i \in 1..Len(m.areas[1][a]) |->
                                DumpItem(m.areas[1][a][i])]]]]

\* YAML's single-quoted scalar from t[i] on, t[1] being the opening quote:
\* '' is a quote, a single ' ends the scalar and must end the text.
RECURSIVE Scan(_, _)
Scan(t, i) ==
    IF i > Len(t) THEN [ok |-> FALSE, v |-> <<>>]
    ELSE IF t[i] # "'"
         THEN [ok |-> Scan(t, i + 1).ok, v |-> <<t[i]>> \o Scan(t, i + 1).v]
    ELSE IF i < Len(t) /\ t[i + 1] = "'"
         THEN [ok |-> Scan(t, i + 2).ok, v |-> <<"'">> \o Scan(t, i + 2).v]
    ELSE [ok |-> i = Len(t), v |-> <<>>]

Unquote(t) == Scan(t, 2)

\* Whether yaml.safe_load accepts the document.
Parses(doc) ==
    /\ \A i \in DOMAIN doc.scenes : Unquote(doc.scenes[i]).ok
    /\ \A a \in DOMAIN doc.areas :
          /\ Unquote(doc.areas[a].key).ok
          /\ \A i \in 1..Len(doc.areas[a].items) :
                Unquote(doc.areas[a].items[i].name).ok

LoadItem(it) == <<it.id, Unquote(it.name).v>> \o it.rest

\* yaml.safe_load(...)['lutron'] of a document that parses: a key with
\* nothing under it has the value None.
SafeLoad(doc) ==
    [scenes |-> IF DOMAIN doc.scenes = {} THEN None
                ELSE Some([i \in DOMAIN doc.scenes |-> Unquote(doc.scenes[i]).v]),
     areas |-> IF DOMAIN doc.areas = {} THEN None
               ELSE Some([k \in {Unquote(doc.areas[a].key).v : a \in DOMAIN doc.areas} |->
                            LET a == CHOOSE x \in DOMAIN doc.areas :
                                        Unquote(doc.areas[x].key).v = k
                            IN [i \in 1..Len(doc.areas[a].items) |->
                                  LoadItem(doc.areas[a].items[i])]])]

\* Flat configurations written by hand: without a scenes key (.get gives
\* {}), a sensor before a dimmer in one area.
FlatConfigs ==
    {[scenes |-> Some(EmptyDict),
      areas |-> Some(Put(EmptyDict, <<"k">>,
                         << <<2, <<"a">>, <<2>>>>, <<3, <<"a">>>> >>))],
     [scenes |-> Some(Put(EmptyDict, 2, <<"a">>)),
      areas |-> Some(Put(Put(EmptyDict, <<>>, << <<3, <<"a">>>> >>),
                         <<"k">>, << <<2, <<"a">>, <<2, 4>>>> >>))]}

\* The (area, device) pairs of the areas in the order of AreaOrder from
\* its k-th area on.
RECURSIVE FlatItems(_, _)
FlatItems(ar, k) ==
    IF k > Len(AreaOrder) THEN <<>>
    ELSE (IF AreaOrder[k] \in DOMAIN ar
          THEN [i \in 1..Len(ar[AreaOrder[k]]) |->
                  <<AreaOrder[k], ar[AreaOrder[k]][i]>>]
          ELSE <<>>) \o FlatItems(ar, k + 1)

\* One turn of the inner loop of _process_integration_yaml.
FlatDevice(m, a, t) ==
    IF Len(t) = 2
    THEN [m EXCEPT !.dimmers = Put(@, t[1], <<t[2], a>>)]
    ELSE [m EXCEPT !.sensors = Put(@, t[1], <<t[2], a, t[3]>>)]

RECURSIVE FlatFirst(_, _, _)
FlatFirst(m, items, k) ==
    IF k = 0 THEN m
    ELSE FlatDevice(FlatFirst(m, items, k - 1), items[k][1], items[k][2])

\* _process_integration_yaml on a configuration whose areas are not None.
ProcessYaml(conf) ==
    FlatFirst([scenes |-> conf.scenes, sensors |-> EmptyDict,
               dimmers |-> EmptyDict, areas |-> conf.areas],
              FlatItems(conf.areas[1], 1),
              Len(FlatItems(conf.areas[1], 1)))

SetMaps(m) ==
    /\ sceneid_to_name' = m.scenes
    /\ deviceid_to_sensortuple' = m.sensors
    /\ deviceid_to_dimmertuple' = m.dimmers
    /\ areaname_to_devices' = m.areas

NoDoc == [scenes |-> EmptyDict, areas |-> EmptyDict]

NoConf == [scenes |-> None, areas |-> None]

DirInitAt(r, at) ==
    /\ js = r
    /\ sceneid_to_name = None
    /\ deviceid_to_sensortuple = EmptyDict
    /\ deviceid_to_dimmertuple = EmptyDict
    /\ areaname_to_devices = None
    /\ dpc = at
    /\ direct = NoMaps
    /\ ytext = NoDoc
    /\ yconf = NoConf

\* porter.yml holds a flat configuration.
DirFlatInit(conf) ==
    /\ js = NoReport
    /\ sceneid_to_name = None
    /\ deviceid_to_sensortuple = EmptyDict
    /\ deviceid_to_dimmertuple = EmptyDict
    /\ areaname_to_devices = None
    /\ dpc = "flat"
    /\ direct = NoMaps
    /\ ytext = NoDoc
    /\ yconf = conf

\* ConfigParams.__init__ with an 'integration' string:
\* process_integration_report(json.loads(...)).
LoadReport ==
    /\ dpc = "report"
    /\ SetMaps(ImportFirst(js, ImportSteps(js)))
    /\ direct' = ImportFirst(js, ImportSteps(js))
    /\ dpc' = "loaded"
    /\ UNCHANGED <<nonDirVars, js, ytext, yconf>>

\* dump_integration_yaml_string.
DumpYaml ==
    /\ dpc = "loaded"
    /\ ytext' = Dump([scenes |-> sceneid_to_name, areas |-> areaname_to_devices])
    /\ dpc' = "dumped"
    /\ UNCHANGED <<nonDirVars, js, sceneid_to_name, deviceid_to_sensortuple,
                   deviceid_to_dimmertuple, areaname_to_devices, direct, yconf>>

\* yaml.safe_load of the string, as main() loads porter.yml: the
\* configuration, or a YAMLError.
YamlLoad ==
    /\ dpc = "dumped"
    /\ IF Parses(ytext)
       THEN /\ yconf' = SafeLoad(ytext)
            /\ dpc' = "flat"
       ELSE /\ dpc' = "YAMLError"
            /\ UNCHANGED yconf
    /\ UNCHANGED <<nonDirVars, js, sceneid_to_name, deviceid_to_sensortuple,
                   deviceid_to_dimmertuple, areaname_to_devices, direct, ytext>>

\* A new ConfigParams without an 'integration' string:
\* _process_integration_yaml.  `None.items()` is an AttributeError.
LoadFlat ==
    /\ dpc = "flat"
    /\ IF yconf.areas = None
       THEN /\ SetMaps([scenes |-> yconf.scenes, sensors |-> EmptyDict,
                        dimmers |-> EmptyDict, areas |-> None])
            /\ dpc' = "AttributeError"
       ELSE /\ SetMaps(ProcessYaml(yconf))
            /\ dpc' = "reloaded"
    /\ UNCHANGED <<nonDirVars, js, direct, ytext, yconf>>

(***************************************************************************)
(* process_integration_report called on a directory that is loaded         *)
(* (lutron.py 339-349 does so): the four maps are made empty one after     *)
(* the other and filled by the two loops, on the object a scrape reads     *)
(* through lips.cfparams; the method takes no lock.  A turn of a loop is   *)
(* taken as one step.                                                      *)
(***************************************************************************)
\* A zone the report gives no name: device['Name'] is a KeyError.
Nameless == [ID |-> 4, Area |-> <<"k">>]

HasName(d) == "Name" \in DOMAIN d

\* The reports of the second call: no LIPIdList, a report as the app
\* writes it, and one whose second zone has no name.
NewReports ==
    {NoReport,
     [Devices |-> <<Dev(1, <<"b">>, <<>>, <<Btn(2, <<"a">>)>>)>>,
      Zones |-> <<Dev(3, <<"a", "'", "s">>, <<>>, <<>>)>>],
     [Devices |-> <<Dev(1, <<"b">>, <<>>, <<Btn(2, <<"a">>)>>)>>,
      Zones |-> <<Dev(3, <<"a">>, <<"k">>, <<>>), Nameless>>]}

\* The k-th device or zone of the two loops.
ImportItem(r, k) ==
    IF k <= Len(r.Devices) THEN r.Devices[k] ELSE r.Zones[k - Len(r.Devices)]

Complete(r) == \A k \in 1..ImportSteps(r) : HasName(ImportItem(r, k))

\* The directory as the four attributes hold it.
Maps ==
    [scenes |-> sceneid_to_name, sensors |-> deviceid_to_sensortuple,
     dimmers |-> deviceid_to_dimmertuple, areas |-> areaname_to_devices]

\* The four assignments of {} in the order of the source.
Emptied(m, k) ==
    CASE k = 0 -> [m EXCEPT !.scenes = Some(EmptyDict)]
      [] k = 1 -> [m EXCEPT !.sensors = EmptyDict]
      [] k = 2 -> [m EXCEPT !.dimmers = EmptyDict]
      [] OTHER -> [m EXCEPT !.areas = Some(EmptyDict)]

ReInitAt(r, at) ==
    /\ newjs = r
    /\ repc = at
    /\ rek = 0
    /\ previous = NoMaps
    /\ observed = None

\* js.get('LIPIdList'); assert lipidlist, js.
ReAssert ==
    /\ repc = "called"
    /\ repc' = IF newjs = NoReport THEN "AssertionError" ELSE "empty"
    /\ UNCHANGED <<nonDirReVars, dirVars, newjs, rek, previous, observed>>

\* self.sceneid_to_name = {}, ... , self.areaname_to_devices = {}.
ReEmpty ==
    /\ repc = "empty"
    /\ SetMaps(Emptied(Maps, rek))
    /\ IF rek = 3
       THEN repc' = "loop" /\ rek' = 0
       ELSE rek' = rek + 1 /\ UNCHANGED repc
    /\ UNCHANGED <<nonDirReVars, js, dpc, direct, ytext, yconf, newjs,
                   previous, observed>>

\* One turn of one of the two loops; after the last, the method returns.
ReTurn ==
    /\ repc = "loop"
    /\ IF rek = ImportSteps(newjs)
       THEN /\ repc' = "returned"
            /\ UNCHANGED <<sceneid_to_name, deviceid_to_sensortuple,
                           deviceid_to_dimmertuple, areaname_to_devices, rek>>
       ELSE IF ~HasName(ImportItem(newjs, rek + 1))
       THEN /\ repc' = "KeyError"
            /\ UNCHANGED <<sceneid_to_name, deviceid_to_sensortuple,
                           deviceid_to_dimmertuple, areaname_to_devices, rek>>
       ELSE /\ SetMaps(IF rek < Len(newjs.Devices)
                       THEN ImportDevice(Maps, ImportItem(newjs, rek + 1))
                       ELSE ImportZone(Maps, ImportItem(newjs, rek + 1)))
            /\ rek' = rek + 1
            /\ UNCHANGED repc
    /\ UNCHANGED <<nonDirReVars, js, dpc, direct, ytext, yconf, newjs,
                   previous, observed>>

\* LutronClient.collect on another thread reads the maps of lips.cfparams.
ReScrape ==
    /\ repc # "off"
    /\ observed = None
    /\ observed' = Some(Maps)
    /\ UNCHANGED <<nonDirReVars, dirVars, newjs, repc, rek, previous>>

(***************************************************************************)
(* The press counters of one Lipservice over disconnects and reconnects,   *)
(* and the `created` of the counter family collect builds (lutron.py       *)
(* 184-204, 291-337).  Each action is a whole call.                        *)
(***************************************************************************)
MaxClock == 3

\* _increment_counter.
IncrementCounter(m, key) == Put(m, key, Get(m, key, 0) + 1)

\* A collect that stamps the family with the time of the scrape.
CreatedNow == cnow

\* CounterMetricFamily(..., created=self.clientstarttime).
Created == clientstarttime

\* LutronClient.__init__ at time t: no Lipservice yet.
CtrInitAt(t) ==
    /\ cnow = t
    /\ clientstarttime = t
    /\ conn = "none"
    /\ opentimes = {}
    /\ created = None

CtrTick ==
    /\ cnow < MaxClock
    /\ cnow' = cnow + 1
    /\ UNCHANGED <<nonCtrVars, clientstarttime, conn, opentimes, created>>

\* LipserviceManager.poll makes the Lipservice of a registered target.
CtrMake ==
    /\ conn = "none"
    /\ conn' = "closed"
    /\ counts_by_scene_number' = EmptyDict
    /\ counts_by_deviceid_component' = EmptyDict
    /\ UNCHANGED <<nonPollCtrVars, outputlevels, cv, ppc, cur, new_value,
                   nframes, nobserved, cpc, ckeys, ctodo, snap, cres, seen,
                   cnow, clientstarttime, opentimes, created>>

\* poll: read() gave (None, None, None, None) and open() has logged in.
CtrOpen ==
    /\ conn = "closed"
    /\ conn' = "opened"
    /\ opentimes' = opentimes \cup {cnow}
    /\ UNCHANGED <<nonCtrVars, cnow, clientstarttime, created>>

\* The controller or the network drops the connection.
CtrLost ==
    /\ conn = "opened"
    /\ conn' = "closed"
    /\ UNCHANGED <<nonCtrVars, cnow, clientstarttime, opentimes, created>>

\* poll with a DEVICE frame.
CtrFrame(f) ==
    /\ conn = "opened"
    /\ f[1] = "DEVICE"
    /\ nframes < MaxFrames
    /\ nframes' = nframes + 1
    /\ IF f[4] # PRESS
       THEN UNCHANGED <<counts_by_scene_number, counts_by_deviceid_component>>
       ELSE IF IsScene(f[2])
       THEN /\ counts_by_scene_number' =
                  IncrementCounter(counts_by_scene_number, f[3])
            /\ UNCHANGED counts_by_deviceid_component
       ELSE /\ counts_by_deviceid_component' =
                  IncrementCounter(counts_by_deviceid_component, <<f[2], f[3]>>)
            /\ UNCHANGED counts_by_scene_number
    /\ UNCHANGED <<nonPollCtrVars, outputlevels, cv, ppc, cur, new_value,
                   nobserved, cpc, ckeys, ctodo, snap, cres, seen, ctrVars>>

\* collect for a target that has its Lipservice.
CtrScrape ==
    /\ conn # "none"
    /\ created' = Some(Created)
    /\ UNCHANGED <<nonCtrVars, cnow, clientstarttime, conn, opentimes>>

(***************************************************************************)
(* client.run(target, selector, command, *args) of the Lutron module, as   *)
(* Brainstem.run calls it (brainstem.py 168) and test_lutron.py tests it:  *)
(* the command goes to the LipServer of the target's Lipservice through    *)
(* LipServer.write (liplib.py 218-235).                                    *)
(***************************************************************************)
MaxRuns == 2

RunTargets == {"qstarg", "other"}

\* The dimmers of test_lutron.py's qstarg.
RunSelectors == {166, 177}

RunLevels == {0, 50}

\* str() of the numbers that occur.
Str(n) ==
    CASE n = 0 -> "0"
      [] n = 1 -> "1"
      [] n = 50 -> "50"
      [] n = 166 -> "166"
      [] n = 177 -> "177"

\* A write that leaves out a value that is false, as `if value:` would.
DataIfTruthy(mode, integration, action, args) ==
    <<"#" \o mode, ",", Str(integration), ",", Str(action)>>
        \o (IF Len(args) > 0 /\ args[1] # 0 THEN <<",", Str(args[1])>> ELSE <<>>)

\* LipServer.write: data = "#{},{},{}".format(mode, integration, action),
\* then ",{}" for every arg that is not None.
Data(mode, integration, action, args) ==
    <<"#" \o mode, ",", Str(integration), ",", Str(action)>>
        \o (IF Len(args) > 0 THEN <<",", Str(args[1])>> ELSE <<>>)

\* LipServer.write under its write lock: nothing unless Opened; else one
\* writer.write of data + "\r\n" and one drain, whose OSError is caught.
WriteTo(w, state, mode, integration, action, args) ==
    IF state # "Opened" THEN w
    ELSE w \o <<Data(mode, integration, action, args) \o <<"\r\n">>, "drain">>

WrInit ==
    /\ wstate = [t \in RunTargets |-> "Closed"]
    /\ wire = [t \in RunTargets |-> <<>>]
    /\ wdrain = [t \in RunTargets |-> "ok"]
    /\ nruns = 0
    /\ lastrun = <<>>

\* The connection of a target is opened or lost, and its peer goes or
\* comes back.
WrFlip(t) ==
    /\ \E v \in {"Opened", "Closed"}, d \in {"ok", "OSError"} :
          /\ <<v, d>> # <<wstate[t], wdrain[t]>>
          /\ wstate' = [wstate EXCEPT ![t] = v]
          /\ wdrain' = [wdrain EXCEPT ![t] = d]
    /\ UNCHANGED <<nonWrVars, wire, nruns, lastrun>>

\* client.run(target, selector, 'setlevel', level): the Lipservice of the
\* target writes OUTPUT, selector, SET, level.
WrRun(t, selector, level) ==
    /\ nruns < MaxRuns
    /\ nruns' = nruns + 1
    /\ lastrun' = <<t, selector, level>>
    /\ wire' = [wire EXCEPT ![t] =
                   WriteTo(@, wstate[t], "OUTPUT", selector, SET, <<level>>)]
    /\ UNCHANGED <<nonWrVars, wstate, wdrain>>

(***************************************************************************)
(* LipServer.read (liplib.py 196-213) and Lipservice.poll (lutron.py       *)
(* 190-246) on what RESPONSE_RE matches: the mode [A-Z]+ and three groups  *)
(* [0-9.]+, as strings of characters.  Each action is a whole poll call.   *)
(***************************************************************************)
Raw(mode, integration, action, val) == <<mode, integration, action, val>>

NoRaw == Raw("", <<>>, <<>>, <<>>)

\* What the controller sends: frames of the kinds poll knows, an ERROR, a
\* kind poll does not know, and frames whose groups are no numbers.
RawFrames ==
    {Raw("OUTPUT", <<"3">>, <<"1">>, <<"5", "0">>),
     Raw("DEVICE", <<"1">>, <<"2">>, <<"3">>),
     Raw("GROUP", <<"5">>, <<"3">>, <<"3">>),
     Raw("ERROR", <<"1">>, <<"2">>, <<"3">>),
     Raw("SYSVAR", <<"1">>, <<"2">>, <<"3">>),
     Raw("OUTPUT", <<"3", ".", "5">>, <<"1">>, <<"5", "0">>),
     Raw("OUTPUT", <<"4">>, <<"1">>, <<"1", ".", "2", ".", "3">>)}

Dots(cs) == Cardinality({i \in 1..Len(cs) : cs[i] = "."})

\* int(...) and float(...) raise ValueError for these.
IntFails(cs) == Dots(cs) > 0

FloatFails(cs) == Dots(cs) > 1 \/ Dots(cs) = Len(cs)

DigitOf(c) ==
    CASE c = "0" -> 0 [] c = "1" -> 1 [] c = "2" -> 2 [] c = "3" -> 3
      [] c = "4" -> 4 [] c = "5" -> 5

\* int(cs), and float(cs) of a string without a point.
RECURSIVE IntOf(_)
IntOf(cs) ==
    IF cs = <<>> THEN 0
    ELSE 10 * IntOf(SubSeq(cs, 1, Len(cs) - 1)) + DigitOf(cs[Len(cs)])

\* read(): the `try` of lines 203-208 leaves by its return.
Converts(raw) == ~IntFails(raw[2]) /\ ~IntFails(raw[3]) /\ ~FloatFails(raw[4])

\* What read() returns for a match that converts.
Decoded(raw) == <<raw[1], IntOf(raw[2]), IntOf(raw[3]), IntOf(raw[4])>>

\* A read() that reconnects whenever it has no frame to return.
ReconnectsWithoutFrame(match) == match = "False" \/ match = "ValueError"

\* read(): `if match is False:` sets Closed and awaits open().
Reconnects(match) == match = "False"

FrInit ==
    /\ fpc = "off"
    /\ flast = NoRaw

\* What open() can make of a Closed connection: Opened, Closed again after
\* a failed connect, or left in Opening by an exception (C1).
OpenOutcomes(state) ==
    IF state = "Closed" THEN {"Opened", "Closed", "Opening"} ELSE {state}

\* poll: read() matched a frame.  One that does not convert gives four
\* None, and poll's `await self.open()` finds the state Opened.
FrPoll(raw) ==
    /\ fpc = "read"
    /\ st = "Opened"
    /\ nframes < MaxFrames
    /\ nframes' = nframes + 1
    /\ flast' = raw
    /\ IF Converts(raw)
       THEN /\ outputlevels' = LevelsAfter(Decoded(raw))
            /\ IF raw[1] = "DEVICE" /\ Decoded(raw)[4] = PRESS
               THEN IF IsScene(Decoded(raw)[2])
                    THEN /\ counts_by_scene_number' =
                               IncrementCounter(counts_by_scene_number,
                                                Decoded(raw)[3])
                         /\ UNCHANGED counts_by_deviceid_component
                    ELSE /\ counts_by_deviceid_component' =
                               IncrementCounter(counts_by_deviceid_component,
                                   <<Decoded(raw)[2], Decoded(raw)[3]>>)
                         /\ UNCHANGED counts_by_scene_number
               ELSE UNCHANGED <<counts_by_scene_number,
                                counts_by_deviceid_component>>
            /\ fpc' = "ret"
            /\ UNCHANGED st
       ELSE /\ UNCHANGED <<outputlevels, counts_by_scene_number,
                           counts_by_deviceid_component>>
            /\ \E s1 \in OpenOutcomes(IF Reconnects("ValueError") THEN "Closed"
                                      ELSE st) :
                  \E s2 \in OpenOutcomes(s1) :
                     /\ st' = s2
                     /\ fpc' = IF s2 = "Opening" THEN "raised" ELSE "ret"
    /\ UNCHANGED <<nonFrConnPollVars, variant, rlock, wlock, sock, buf, stored,
                   pc, op, ret, oarg, hs, ofail, qi, good, lastOpen, lastRead,
                   crashed, cv, ppc, cur, new_value, nobserved, cpc, ckeys,
                   ctodo, snap, cres, seen>>

\* poll: read() finds the connection lost, or not Opened: the reopen of
\* read() and the open() of poll.
FrLost ==
    /\ fpc = "read"
    /\ flast' = NoRaw
    /\ \E s1 \in OpenOutcomes(IF st # "Opened" \/ Reconnects("False")
                              THEN "Closed" ELSE st) :
          \E s2 \in OpenOutcomes(s1) :
             /\ st' = s2
             /\ fpc' = IF s2 = "Opening" THEN "raised" ELSE "ret"
    /\ UNCHANGED <<nonFrConnPollVars, variant, rlock, wlock, sock, buf, stored,
                   pc, op, ret, oarg, hs, ofail, qi, good, lastOpen, lastRead,
                   crashed, pollVars>>

\* `return self.poll()`: the manager runs the continuation.
FrResubmit ==
    /\ fpc = "ret"
    /\ fpc' = "read"
    /\ UNCHANGED <<nonFrVars, flast>>

(***************************************************************************)
(* LipServer.read's reconnect (liplib.py 210-214): open (132-167) on a new *)
(* connection with the read buffer of the old one, and the first read      *)
(* after it.  A _read_until call is one step; C23 covers its loop.         *)
(***************************************************************************)
MaxSent == 4

\* b"login: " and b"password: ", shortened to three bytes each.
LOGIN == <<"n", ":", " ">>

PASSWORD == <<"d", ":", " ">>

Literal(v) ==
    CASE v = "login" -> LOGIN [] v = "password" -> PASSWORD
      [] v = "prompt" -> PROMPT

\* value.search or buffer.find for the values open and read pass.
Loc(b, v) ==
    IF v = "re" THEN Locate(b, "re")
    ELSE LET S == {i \in 1..(Len(b) - Len(Literal(v)) + 1) :
                     SubSeq(b, i, i + Len(Literal(v)) - 1) = Literal(v)}
         IN IF S = {} THEN <<>>
            ELSE <<Least(S), Least(S) + Len(Literal(v)) - 1>>

\* What a disconnect leaves in the buffer: nothing, or a frame cut short.
OldRests == {<<>>, <<"~", "O", ",", "1", ".">>}

\* What the peer of the new connection sends: the three prompts, a frame,
\* and the end of a frame.
SentPieces ==
    { LOGIN, PASSWORD, PROMPT,
      <<"~", "A", ",", "1", ",", "1", ",", "1", "CR", "LF">>,
      <<",", "1", ",", "1", "CR", "LF">> }

RECURSIVE SentOf(_)
SentOf(n) ==
    IF n = 0 THEN {<<>>}
    ELSE SentOf(n - 1) \cup {s \o q : s \in SentOf(n - 1), q \in SentPieces}

\* open() assigns reader and writer (lines 155-156) and nothing else: the
\* buffer of __init__ (116) stays.
KeptAtOpen(b) == b

\* One _read_until(v) on buffer b with `line` still to come and then the
\* end of the stream: the reads bring some n bytes; a match is cut off and
\* returned, and with all read and no match the call returns False.
UntilOutcomes(b, line, v) ==
    {[buf |-> KeepAfter(b \o SubSeq(line, 1, n),
                        Loc(b \o SubSeq(line, 1, n), v)),
      line |-> SubSeq(line, n + 1, Len(line)),
      match |-> Loc(b \o SubSeq(line, 1, n), v)] :
        n \in {k \in 0..Len(line) :
                 /\ Loc(b \o SubSeq(line, 1, k), v) # <<>>
                 /\ (k = 0 \/ Loc(b, v) = <<>>)}}
    \cup (IF Loc(b \o line, v) = <<>>
          THEN {[buf |-> b \o line, line |-> <<>>, match |-> <<>>]}
          ELSE {})

StillOld(old, m) ==
    IF m = <<>> THEN old ELSE IF old > m[2] THEN old - m[2] ELSE 0

XInit ==
    /\ xbuf = <<>>
    /\ xold = 0
    /\ xline = <<>>
    /\ xpc = "off"
    /\ xframe = <<>>
    /\ xmixed = FALSE

\* read() found the connection lost with `rest` in the buffer, sets Closed
\* and awaits open(); the new peer will send `sent`.
XInitAt(rest, sent) ==
    /\ xbuf = rest
    /\ xold = Len(rest)
    /\ xline = sent
    /\ xpc = "connect"
    /\ xframe = <<>>
    /\ xmixed = FALSE

\* open(): the connection is made, or OSError leaves the state Closed.
XConnect ==
    /\ xpc = "connect"
    /\ \/ /\ xpc' = "login"
          /\ xbuf' = KeptAtOpen(xbuf)
          /\ xold' = Len(xbuf')
          /\ UNCHANGED xline
       \/ /\ xpc' = "done"
          /\ UNCHANGED <<xbuf, xold, xline>>
    /\ UNCHANGED <<nonXVars, xframe, xmixed>>

\* `await self._read_until(b"login: ")` and the two after it: the result
\* is not looked at, and the next line of open runs.
XUntil(v, next) ==
    /\ xpc = v
    /\ \E o \in UntilOutcomes(xbuf, xline, v) :
          /\ xbuf' = o.buf
          /\ xline' = o.line
          /\ xold' = StillOld(xold, o.match)
    /\ xpc' = next
    /\ UNCHANGED <<nonXVars, xframe, xmixed>>

\* writer.drain() after the user name or the password raises (C1).
XDrainRaises ==
    /\ xpc \in {"password", "prompt"}
    /\ xpc' = "raised"
    /\ UNCHANGED <<nonXVars, xbuf, xold, xline, xframe, xmixed>>

\* The state is Opened, and read() calls _read_until(RESPONSE_RE).
XRead ==
    /\ xpc = "read"
    /\ \E o \in UntilOutcomes(xbuf, xline, "re") :
          /\ xbuf' = o.buf
          /\ xline' = o.line
          /\ xold' = StillOld(xold, o.match)
          /\ IF o.match = <<>>
             THEN UNCHANGED <<xframe, xmixed>>
             ELSE /\ xframe' = SubSeq(xbuf \o xline, o.match[1], o.match[2])
                  /\ xmixed' = (o.match[1] <= xold)
    /\ xpc' = "done"
    /\ UNCHANGED nonXVars

(***************************************************************************)
(* EventPropagator.propagate and add_awaitables_to (brainstem.py 86-98)    *)
(* as NetaxsClient calls them: poll and _coro_for_session on the scheduler *)
(* thread under NetaxsClient.cv (netaxs.py 545-546, 560-568), collect on   *)
(* a scrape thread under the session's cv only (682-687).  A reaction is   *)
(* the number of the propagate call that made it.                          *)
(***************************************************************************)
MaxReactions == 3

ReactionIds == 1..MaxReactions

\* `self.awaitables = set()`: the attribute names a new, empty set.
NewSet(own, other) == {}

EpInit ==
    /\ awaitables = {}
    /\ otherset = {}
    /\ handed = [r \in ReactionIds |-> 0]
    /\ nadded = 0
    /\ appc = "idle"
    /\ ncvholder = "none"

\* propagate: observe_event returns a coroutine or None; the coroutine is
\* added to the set.
Propagate(reacts) ==
    /\ nadded < MaxReactions
    /\ IF reacts
       THEN /\ nadded' = nadded + 1
            /\ awaitables' = awaitables \cup {nadded + 1}
       ELSE UNCHANGED <<nadded, awaitables>>

\* collect -> _update_events -> _update_one_event on a scrape thread:
\* `with session.cv`, NetaxsClient.cv released after line 681.
EpPropagateScrape(reacts) ==
    /\ Propagate(reacts)
    /\ reacts
    /\ UNCHANGED <<nonEpVars, otherset, handed, appc, ncvholder>>

\* _coro_for_session: `with self.cv: self._update_one_event(...)`, a task
\* of the scheduler thread, which is not inside poll then.
EpPropagateSession(reacts) ==
    /\ appc = "idle"
    /\ ncvholder = "none"
    /\ Propagate(reacts)
    /\ UNCHANGED <<nonEpVars, otherset, handed, appc, ncvholder>>

\* poll: `with self.cv`, and add_awaitables_to up to `otherset |= ...`.
EpMerge ==
    /\ appc = "idle"
    /\ ncvholder = "none"
    /\ ncvholder' = "poll"
    /\ otherset' = otherset \cup awaitables
    /\ appc' = "merged"
    /\ UNCHANGED <<nonEpVars, awaitables, handed, nadded>>

\* add_awaitables_to: `self.awaitables = set()`.
EpReset ==
    /\ appc = "merged"
    /\ awaitables' = NewSet(awaitables, otherset)
    /\ appc' = "reset"
    /\ UNCHANGED <<nonEpVars, otherset, handed, nadded, ncvholder>>

\* poll: every awaitable of the set becomes a task in `awaiting`, the set
\* is emptied and the lock released.
EpAwait ==
    /\ appc = "reset"
    /\ handed' = [r \in ReactionIds |->
                     IF r \in otherset THEN handed[r] + 1 ELSE handed[r]]
    /\ otherset' = {}
    /\ appc' = "idle"
    /\ ncvholder' = "none"
    /\ UNCHANGED <<nonEpVars, awaitables, nadded>>

(***************************************************************************)
(* netaxs.Session: open and close on the synchronous side (netaxs.py       *)
(* 57-98, called at 336-337, 487 and 514-515), async_close, async_open and *)
(* handle_async_request (100-133) inside read_event (142-144) as           *)
(* _coro_for_session runs it (520-552).  An await is the end of a step.    *)
(***************************************************************************)
MaxLogins == 3

NxInit ==
    /\ session = 0
    /\ async_request = "NONE"
    /\ websocket = 0
    /\ wcookies = 0
    /\ npc = "off"
    /\ nthen = "read"
    /\ nbranch = "NONE"
    /\ spc = "idle"
    /\ nlogins = 0

\* _get_session: Session(...), s.open(), and the coroutine with
\* must_open=True in the awaitables.
NxStartInit ==
    /\ session = 1
    /\ async_request = "OPEN"
    /\ websocket = 0
    /\ wcookies = 0
    /\ npc = "start"
    /\ nthen = "read"
    /\ nbranch = "NONE"
    /\ spc = "idle"
    /\ nlogins = 1

\* async_open: the assert, and with no websocket the cookies of the
\* session go into the connect, which is awaited.  A failed assert is
\* caught by _coro_for_session, which runs again with read_event.
AsyncOpen(then) ==
    IF session = 0
    THEN /\ npc' = "read"
         /\ UNCHANGED <<wcookies, nthen>>
    ELSE IF websocket' = 0
         THEN /\ wcookies' = session
              /\ nthen' = then
              /\ npc' = "connecting"
         ELSE /\ npc' = then
              /\ UNCHANGED <<wcookies, nthen>>

\* _coro_for_session with must_open: `await session.async_open()`.
NxMustOpen ==
    /\ npc = "start"
    /\ UNCHANGED websocket
    /\ AsyncOpen("read")
    /\ UNCHANGED <<nonNxVars, session, async_request, nbranch, spc, nlogins>>

\* websockets.connect returns: the websocket is set and the request
\* cleared.
NxConnected ==
    /\ npc = "connecting"
    /\ websocket' = wcookies
    /\ async_request' = "NONE"
    /\ npc' = nthen
    /\ UNCHANGED <<nonNxVars, session, wcookies, nthen, nbranch, spc, nlogins>>

\* read_event: `assert self.websocket`, then handle_async_request up to
\* its first await.  Without a websocket the assert fails, the coroutine
\* logs, sleeps and runs read_event again: no step.
NxReadEvent ==
    /\ npc = "read"
    /\ websocket # 0
    /\ IF async_request \in {"OPEN", "CLOSE"}
       THEN /\ nbranch' = async_request
            /\ npc' = "closing"
       ELSE /\ npc' = "await"
            /\ UNCHANGED nbranch
    /\ UNCHANGED <<nonNxVars, session, async_request, websocket, wcookies,
                   nthen, spc, nlogins>>

\* async_close after `await self.websocket.close()`: the websocket is
\* None; on the OPEN branch async_open follows, on the CLOSE branch
\* read_event goes on to iterate over None, which _coro_for_session logs.
NxClosed ==
    /\ npc = "closing"
    /\ websocket' = 0
    /\ IF nbranch = "OPEN"
       THEN AsyncOpen("await")
       ELSE /\ npc' = "read"
            /\ UNCHANGED <<wcookies, nthen>>
    /\ UNCHANGED <<nonNxVars, session, async_request, nbranch, spc, nlogins>>

\* A message arrives and is processed, and the coroutine is scheduled
\* again.
NxEvent ==
    /\ npc = "await"
    /\ npc' = "read"
    /\ UNCHANGED <<nonNxVars, session, async_request, websocket, wcookies,
                   nthen, nbranch, spc, nlogins>>

\* ConnectionClosedError: `session.websocket = None`, async_open, and
\* read_event again.
NxConnectionClosed ==
    /\ npc = "await"
    /\ websocket' = 0
    /\ AsyncOpen("read")
    /\ UNCHANGED <<nonNxVars, session, async_request, nbranch, spc, nlogins>>

\* close(), on a scrape thread.
NxClose ==
    /\ spc = "idle"
    /\ session # 0
    /\ nlogins < MaxLogins
    /\ session' = 0
    /\ async_request' = "CLOSE"
    /\ UNCHANGED <<nonNxVars, websocket, wcookies, npc, nthen, nbranch, spc,
                   nlogins>>

\* open(): requests.Session() and the two posts.
NxOpenLogin ==
    /\ spc = "idle"
    /\ session = 0
    /\ nlogins < MaxLogins
    /\ nlogins' = nlogins + 1
    /\ session' = nlogins + 1
    /\ spc' = "opening"
    /\ UNCHANGED <<nonNxVars, async_request, websocket, wcookies, npc, nthen,
                   nbranch>>

\* open(): `self.async_request = Session._Request.OPEN`.
NxOpenDone ==
    /\ spc = "opening"
    /\ async_request' = "OPEN"
    /\ spc' = "idle"
    /\ UNCHANGED <<nonNxVars, session, websocket, wcookies, npc, nthen,
                   nbranch, nlogins>>

\* open(): a post raises, or the login is refused.
NxOpenRaises ==
    /\ spc = "opening"
    /\ spc' = "idle"
    /\ UNCHANGED <<nonNxVars, session, async_request, websocket, wcookies, npc,
                   nthen, nbranch, nlogins>>

\* Everything but the timers.
RestInit ==
    /\ ConnInit
    /\ MgrInit
    /\ PollInit
    /\ BrainInit
    /\ KaInit
    /\ RuInitAt(<<>>, "prompt")
    /\ DirInitAt(NoReport, "idle")
    /\ ReInitAt(NoReport, "off")
    /\ CtrInitAt(0)
    /\ WrInit
    /\ FrInit
    /\ XInit
    /\ EpInit
    /\ NxInit

\* The timers made at 15:00:00 of day 0.
Init ==
    /\ RestInit
    /\ TimerInitAt(54000)

\* Lipservice.__init__: `self.lipserver = liplib.LipServer()`.
LipInit == Init /\ variant = "lip"

Next ==
    \/ \E t \in Tasks : TaskStep(t)
    \/ PollStep
    \/ CallerStep
    \/ \E t \in Tracked : Resubmit(t)
    \/ Crash
    \/ PeerClose

Spec == Init /\ [][Next]_vars


(***************************************************************************)
(* The same connection with the event loop's fairness: every coroutine     *)
(* that can take a step is eventually run, and a coroutine waiting for an  *)
(* asyncio.Lock gets it (waiters are woken first come, first served), so   *)
(* the steps that take a lock are strongly fair.  No outside caller sends  *)
(* commands here, and the controller may recover for good.                 *)
(***************************************************************************)
QlStep ==
    \/ QlStart
    \/ QlQuery
    \/ QlDone

LiveNext ==
    \/ \E t \in Tasks : TaskStep(t)
    \/ PollStep
    \/ QlStep
    \/ KaPing
    \/ \E t \in Tracked : Resubmit(t)
    \/ Crash
    \/ PeerClose
    \/ Recover

LiveSpec ==
    /\ Init
    /\ [][LiveNext]_vars
    /\ \A t \in Tasks : SF_vars(TaskStep(t))
    /\ SF_vars(PollStep)
    /\ WF_vars(QlStep)
    /\ WF_vars(KaPing)
    /\ \A t \in Tracked : WF_vars(Resubmit(t))
    /\ WF_vars(Crash)

(***************************************************************************)
(* Claims about the connection                                             *)
(***************************************************************************)

\* C1: an open() that started in Closed and in which some step failed
\* (connect error, disconnect while waiting for a prompt, an error while
\* sending, a failed monitoring enable) returns without raising and leaves
\* the state Closed; the state is Opened after open only if no step failed.
C1_OpenFailureLeavesClosed ==
    lastOpen.ran =>
        /\ lastOpen.failed => (~lastOpen.raised /\ lastOpen.st = "Closed")
        /\ lastOpen.st = "Opened" => ~lastOpen.failed

\* C2: a read() that detected a disconnect in state Opened has called open
\* once, with the stored credentials, and has returned the failure tuple:
\* never a frame, and it has not raised.
C2_ReadDisconnectReturnsFailure ==
    (lastRead.disc /\ lastRead.res # "pending") =>
        /\ lastRead.opens = 1
        /\ lastRead.arg = lastRead.was
        /\ lastRead.res = "none"

\* poll() is inside read() on a live, opened connection.
Reading ==
    /\ st = "Opened"
    /\ sock = "live"
    /\ pc["poll"] = "r_wait"

\* C3: once the controller accepts connections and completes logins for
\* good, the connection returns to Opened and frames are read again, with
\* no trigger from outside the poll loop.
C3_ReconnectsEventually == good ~> Reading

\* A task between its socket write and the end of its drain.
InWrite(t) ==
    \/ pc[t] = "w_drain"
    \/ InLogin(t, "dr")

\* A task consuming the read buffer.
Consuming(t) ==
    \/ pc[t] = "r_wait"
    \/ InLogin(t, "rd")

\* A task inside read() that is suspended waiting for data: for a frame, or
\* for a prompt of the reopen that read() awaits.
ReadSuspended(t) ==
    \/ pc[t] = "r_wait"
    \/ /\ InLogin(t, "rd")
       /\ ret[t] = "r_after"

\* Task w waits for the write lock that task r holds.
BlockedBy(w, r) ==
    /\ pc[w] = "w_lock"
    /\ wlock = r

\* C4 as stated: writes exclude each other, reads exclude each other, and no
\* write-side operation is blocked by a read suspended waiting for data.
C4_LocksAsStated ==
    /\ Cardinality({t \in Tasks : InWrite(t)}) <= 1
    /\ Cardinality({t \in Tasks : Consuming(t)}) <= 1
    /\ \A w, r \in Tasks : ~(BlockedBy(w, r) /\ ReadSuspended(r))

\* C4 amended: writes exclude each other, reads exclude each other, and no
\* write-side operation is blocked by a read that is suspended waiting for a
\* notification frame (the reopen inside read() holds both locks).
C4_Locks ==
    /\ Cardinality({t \in Tasks : InWrite(t)}) <= 1
    /\ Cardinality({t \in Tasks : Consuming(t)}) <= 1
    /\ \A w, r \in Tasks : ~(BlockedBy(w, r) /\ pc[r] = "r_wait")

\* A read is suspended for a frame while one write drains and another
\* write-side operation waits for the write lock.
C4_Witness ==
    /\ pc["poll"] = "r_wait"
    /\ \E w1, w2 \in Tasks :
          /\ w1 # w2
          /\ pc[w1] = "w_drain"
          /\ BlockedBy(w2, w1)


(***************************************************************************)
(* MgrSpec: LipserviceManager.poll (lutron.py 268-288), LutronClient.poll  *)
(* (300-302), collect's register_target (255-261, 308) and porter's        *)
(* async_loop (porter.py 196-214).  A task is known here only by how it    *)
(* ends: it returns its continuation, or it raises.                        *)
(***************************************************************************)
MgrNext ==
    \/ MgrEnter
    \/ MgrWake
    \/ MgrSleepDone
    \/ \E l \in Loops : TaskReturn(l)
    \/ \E l \in Loops : TaskRaise(l)
    \/ TimersStep
    \/ LoopWake
    \/ \E t \in Targets : Collect(t)
    \/ Interrupt

MgrSpec == LipInit /\ [][MgrNext]_vars

\* C5: while the manager is between two calls of poll (or inside one),
\* tasks_pending holds exactly one pollLoop task and exactly one
\* keepAliveLoop task for every connection, and none for a (host, port)
\* without one: no continuation was dropped or submitted twice.
C5_OneTaskPerLoop ==
    (asyncThread = "running" /\ mgr # "raised") =>
        \A l \in Loops :
            running[l] + finished[l] + failed[l] =
                IF l[1] \in lips THEN 1 ELSE 0

\* Both connections exist, a continuation has been resubmitted, one loop is
\* done and waits for the next poll while another is pending.
C5_Witness ==
    /\ asyncThread = "running"
    /\ mgr = "idle"
    /\ top["lutron"] = "run"
    /\ lips = HostPorts
    /\ resub
    /\ \E l1, l2 \in Loops : finished[l1] = 1 /\ running[l2] = 1

\* C6: once a scheduled continuation has completed with an unhandled error,
\* nothing is resubmitted, no continuation of any loop runs and the whole
\* process has stopped.
C6_FatalStopsProcess ==
    fatal =>
        /\ \A l \in Loops : running[l] = 0
        /\ \A c \in Tops : top[c] # "run"
        /\ asyncThread = "exited"
        /\ mainThread = "stopped"

(***************************************************************************)
(* PollSpec: one Lipservice's poll against scrapes of its metrics.         *)
(***************************************************************************)
PollNext ==
    \/ \E f \in Frames : PollFrame(f)
    \/ PollIncWrite
    \/ PollResubmit
    \/ CollectEnter
    \/ CollectLevel
    \/ CollectCounters
    \/ CollectReturn

PollSpec == LipInit /\ [][PollNext]_vars

\* C7: poll's handling of a DEVICE frame changes no output level; a PRESS
\* on the Bridge id adds exactly 1 to the scene counter of its component and
\* changes nothing else, a PRESS on another id adds exactly 1 to the device
\* counter of (id, component) and changes nothing else; RELEASE, HOLD and
\* DOUBLETAP change no counter.  Counters change in no other step.
C7_PressCounts ==
    [][/\ (ppc = "read" /\ cur'[1] = "DEVICE") =>
            /\ outputlevels' = outputlevels
            /\ counts_by_scene_number' = counts_by_scene_number
            /\ counts_by_deviceid_component' = counts_by_deviceid_component
            /\ (ppc' = "inc") = (cur'[4] = PRESS)
       /\ (ppc = "inc" /\ ppc' = "ret") =>
            /\ outputlevels' = outputlevels
            /\ IF cur[2] = Bridge
               THEN /\ counts_by_scene_number' =
                          Put(counts_by_scene_number, cur[3],
                              Get(counts_by_scene_number, cur[3], 0) + 1)
                    /\ counts_by_deviceid_component' =
                          counts_by_deviceid_component
               ELSE /\ counts_by_deviceid_component' =
                          Put(counts_by_deviceid_component, <<cur[2], cur[3]>>,
                              Get(counts_by_deviceid_component,
                                  <<cur[2], cur[3]>>, 0) + 1)
                    /\ counts_by_scene_number' = counts_by_scene_number
       /\ (\/ counts_by_scene_number' # counts_by_scene_number
           \/ counts_by_deviceid_component' # counts_by_deviceid_component)
            => (ppc = "inc" /\ ppc' = "ret")
      ]_vars

\* A second PRESS of scene 2 has been counted.
C7_Witness ==
    /\ ppc = "ret"
    /\ cur = <<"DEVICE", Bridge, 2, PRESS>>
    /\ Get(counts_by_scene_number, 2, 0) = 2
    /\ counts_by_deviceid_component = EmptyDict

\* C8: after poll has handled an OUTPUT or SHADEGRP frame with action SET,
\* the level of its address is the frame's value and no other entry has
\* changed; after one with action RAISING, LOWERING, STOP, 29 or 30 the
\* table is as it was.
C8_SetOverwrites ==
    [][(ppc = "read" /\ cur'[1] \in {"OUTPUT", "SHADEGRP"}) =>
            IF cur'[3] = SET
            THEN outputlevels' = Put(outputlevels, cur'[2], Some(cur'[4]))
            ELSE outputlevels' = outputlevels
      ]_vars

\* A RAISING frame carrying 50 has left the level a SET stored, 0.
C8_Witness ==
    /\ ppc = "ret"
    /\ cur = <<"OUTPUT", 3, RAISING, 50>>
    /\ outputlevels[3] = Some(0)

\* C9: when poll is about to resubmit itself after a decoded frame, every
\* frame decoded so far has been forwarded to observe_event.
C9_EveryFrameObserved ==
    (ppc = "ret" /\ cur[1] # "None") => nobserved = nframes

\* C10: the views a collect call returns are those of one metrics state
\* that existed during the call.
C10_SnapshotIsAState ==
    cres = "ok" => snap \in seen

(***************************************************************************)
(* BrainSpec: one run at a time, and observe_event.                        *)
(***************************************************************************)
BrainNext ==
    \/ \E selector \in Observed : Observe(selector)
    \/ \E selector \in Observed : ObserveElsewhere(selector)
    \/ \E a \in ActionNames : RunStart(a)
    \/ RunStep
    \/ ClientReturn
    \/ ClientRaise

BrainSpec == LipInit /\ [][BrainNext]_vars

\* C12: observe_event answers with the action of the first registered
\* selector reg for which (reg[0] == sel[0] or sel[1] in reg[1]) and
\* reg[2:] == sel[2:], the rest compared item by item, and with None if
\* there is none.
C12_MatchAsStated ==
    LET Claimed(reg, sel) ==
            /\ reg.f[1] = sel.f[1] \/ IsSubstr(sel.f[2], reg.f[2])
            /\ SubSeq(reg.f, 3, Len(reg.f)) = SubSeq(sel.f, 3, Len(sel.f))
        Hits == {i \in 1..Len(Reactions) : Claimed(Reactions[i].sel, bobs)}
    IN (bobs # NoObs /\ bkey = <<"module", "target">>) =>
         bcmd = IF Hits = {} THEN "None"
                ELSE Reactions[CHOOSE i \in Hits : \A j \in Hits : i <= j].cmd

\* C13: a run of an action with a ratelimit directive that no earlier run
\* has passed executes all its steps: it ends only by returning, unless a
\* client raised, and has then made every call of its sequence.
C13_FirstRunPassesRatelimit ==
    (bact = "limited" /\ bres \in {"returned", "raised"} /\ bexc # "client")
        => (bres = "returned" /\ blog = FlatSeq(BActions[bact], 1))

\* C14: the calls a run has made are, in order and once each, the first
\* calls of its sequence with nested sequences in place, each on the client
\* of its module with the configured target, selector, command and
\* arguments; a call starts only when the one before has returned; a run
\* that returns has made them all.
C14_StepsInOrder ==
    bres # "idle" =>
        /\ IsPrefix(blog, FlatSeq(BActions[bact], 1))
        /\ bres = "returned" => blog = FlatSeq(BActions[bact], 1)
        /\ bres = "awaiting" => blog # <<>>

\* A nested run has returned into a run that has gone on to its last call.
C14_Witness ==
    /\ bact = "night"
    /\ bres = "awaiting"
    /\ Len(bstack) = 1
    /\ Len(blog) = 5
    /\ blog[5] = <<"mockmodule", "target", "sel", "lock", <<>>>>

\* C15: when a client has raised, the run and every enclosing run have
\* ended with it: no frame is left, no step can follow, and the calls made
\* before stand as they were.
C15_FailurePropagates ==
    /\ bexc = "client" =>
         /\ bres = "raised"
         /\ bstack = <<>>
         /\ blog # <<>>
         /\ IsPrefix(blog, FlatSeq(BActions[bact], 1))
         /\ ~ENABLED RunStep
         /\ ~ENABLED ClientReturn
    /\ bres = "awaiting" => bstack # <<>>

\* The second call of pump_on, two runs deep inside night, has raised: the
\* calls that remain in pump_on's callers were not made.
C15_Witness ==
    /\ bact = "night"
    /\ bexc = "client"
    /\ bres = "raised"
    /\ Len(blog) = 3

(***************************************************************************)
(* TimerSpec: the timer loop from a Timers made at any time of day 0.      *)
(***************************************************************************)
TimerInit ==
    /\ RestInit
    /\ variant = "lip"
    /\ \E t0 \in Instants : DateOf(t0) = 0 /\ TimerInitAt(t0)

TimerNext ==
    \/ Tick
    \/ TimerEnter
    \/ CatchUp
    \/ CatchRunReturn
    \/ CatchRunRaise
    \/ TimerCheck
    \/ FireDone
    \/ TimerWake

TimerSpec == TimerInit /\ [][TimerNext]_vars

\* C16: with entries in the heap and the date test behind it,
\* process_timers returns a sleep if the earliest entry is later than now,
\* of exactly the seconds until it, firing nothing; otherwise it pops
\* exactly that entry and runs its action once, after which it returns the
\* next check with no sleep.
C16_DueOrSleep ==
    [][/\ (tpc = "check" /\ tpc' # "check" /\ heap_of_timers # {}) =>
            IF HeapTop(heap_of_timers)[1] > tcall
            THEN /\ tpc' = "sleeping"
                 /\ tsleep' = HeapTop(heap_of_timers)[1] - tcall
                 /\ tfired' = tfired
                 /\ heap_of_timers' = heap_of_timers
            ELSE /\ tpc' = "firing"
                 /\ tfired' = Append(tfired, HeapTop(heap_of_timers))
                 /\ heap_of_timers' = heap_of_timers \ {HeapTop(heap_of_timers)}
                 /\ tsleep' = 0
       /\ (tpc = "firing" /\ tpc' # "firing") =>
            /\ tpc' = "ready"
            /\ tsleep' = 0
            /\ tfired' = tfired
            /\ heap_of_timers' = heap_of_timers
      ]_vars

\* At 03:59:59 the 04:00:00 timer is a second away.
C16_Witness ==
    /\ tpc = "sleeping"
    /\ tcall % DaySeconds = 14399
    /\ HeapTop(heap_of_timers)[2] = "pump_off"
    /\ tsleep = 1

\* C17: a call that found the date advanced has, once past the catch-up,
\* fired every entry that was pending, once each and in heap order, holds
\* the heap of all configured timers on the new date, and has the new date
\* as its reference date.
C17_CatchUpThenRebuild ==
    (ttoday0 < DateOf(tcall) /\ tpc \in {"check", "raised"}) =>
        /\ tfired = HeapOrder(theap0)
        /\ heap_of_timers = EntriesOn(DateOf(tcall))
        /\ today = DateOf(tcall)

\* C18: a call that finds the heap empty fires nothing and returns a sleep
\* of exactly the seconds from now to the midnight that ends the reference
\* date; when that time has passed the loop can run again.
C18_EmptyHeapSleepsToMidnight ==
    (tpc = "sleeping" /\ heap_of_timers = {}) =>
        /\ tsleep = (today + 1) * DaySeconds - tcall
        /\ tsleep > 0
        /\ tfired = <<>>
        /\ tnow >= (today + 1) * DaySeconds => ENABLED TimerWake

\* Called at 15:00:00 with the day's timers past: nine hours.
C18_Witness ==
    /\ tpc = "sleeping"
    /\ heap_of_timers = {}
    /\ tcall % DaySeconds = 54000
    /\ tsleep = 32400

\* A step of collect.
CollectStep == CollectEnter \/ CollectLevel \/ CollectCounters \/ CollectReturn

\* C11: collect holds cv exactly while it copies, and every step of the
\* copy can be taken whatever poll is doing; poll waits for cv only while a
\* scrape is copying, and can otherwise always take its next step, so no
\* state is a deadlock; and no step of collect touches the connection or
\* the manager's tasks.
C11_ScrapeNeverBlocks ==
    /\ [](/\ (cv = "collect") = (cpc \in {"levels", "counters"})
          /\ cpc \in {"levels", "counters"} =>
                ENABLED (CollectLevel \/ CollectCounters)
          /\ cpc = "done" => ENABLED CollectReturn
          /\ (ppc = "inc" /\ ~ENABLED PollIncWrite) =>
                cpc \in {"levels", "counters"}
          /\ ppc = "read" => ENABLED PollFrame(<<"None", 0, 0, 0>>)
          /\ ppc = "ret" => ENABLED PollResubmit)
    /\ [][CollectStep => UNCHANGED <<connVars, mgrVars>>]_vars

\* A PRESS waits for cv while a scrape is in the middle of its copy.
C11_Witness ==
    /\ ppc = "inc"
    /\ cv = "collect"
    /\ cpc = "levels"
    /\ ctodo = 2

(***************************************************************************)
(* KaSpec: the keep-alive loop of one Lipservice.                          *)
(***************************************************************************)
KaNext ==
    \/ KaTick
    \/ \E a \in FrameKinds : KaFrame(a)
    \/ KaOpen
    \/ KaCheck
    \/ KaWake
    \/ KaPingSent
    \/ KaPingRaise
    \/ KaResubmit

KaSpec == LipInit /\ [][KaNext]_vars

\* C19: a ping is sent only when at least ten minutes have passed since
\* the last frame, ping or open; and no ping ends the loop: it always
\* comes to resubmit itself.
C19_PingOnlyAfterSilence ==
    /\ kpc \in {"pinging", "ret"} => kidle >= PingTimeout
    /\ kpc # "raised"

\* C20: there is at most one connection per (host, port); only the head of
\* the manager's poll makes one, for every registered target that has none,
\* and collect makes none; a new connection's outputlevels has exactly the
\* dimmer ids of its ConfigParams as keys, each None.
C20_OneConnectionPerHostPort ==
    /\ [](\A hp \in HostPorts :
            /\ nconn[hp] <= 1
            /\ (hp \in lips) = (nconn[hp] = 1)
            /\ hp \in lips => \E t \in registered : HostPortOf(t) = hp)
    /\ [][/\ (lips' # lips \/ nconn' # nconn) =>
                (mgr = "idle" /\ mgr' # "idle")
          /\ registered' # registered => (lips' = lips /\ nconn' = nconn)
          /\ (mgr = "idle" /\ mgr' # "idle") =>
                lips' = {HostPortOf(t) : t \in registered}
          /\ \A hp \in lips' \ lips :
                /\ otable'[hp].made
                /\ DOMAIN otable'[hp].levels = DimmersOf(firstOf[hp])
                /\ \A d \in DOMAIN otable'[hp].levels :
                      otable'[hp].levels[d] = None]_vars

\* Two targets that name the same (host, port) were registered before a
\* poll; the poll made one connection for them, with the dimmers of the
\* first.
C20_Witness ==
    /\ {"a", "a:23"} \subseteq registered
    /\ firstOf[<<"a", 23>>] = "a:23"
    /\ lips = HostPorts
    /\ nconn[<<"a", 23>>] = 1
    /\ DOMAIN otable[<<"a", 23>>].levels = {3}

(***************************************************************************)
(* MgrLiveSpec: the manager under a fair event loop.  asyncio.wait and     *)
(* asyncio.sleep with timeout=1 return after a second whatever the tasks   *)
(* do, and the event loop runs every coroutine that can go on.             *)
(***************************************************************************)
MgrLiveSpec ==
    /\ LipInit
    /\ [][MgrNext]_vars
    /\ WF_vars(MgrEnter)
    /\ WF_vars(MgrWake)
    /\ WF_vars(MgrSleepDone)
    /\ WF_vars(LoopWake)

\* C21: the manager's wait always returns, so every registered target gets
\* its connection (and with it its poll and ping tasks) from a later poll,
\* as long as the process lives.
C21_RegisteredGetsConnection ==
    \A t \in Targets :
        (t \in registered) ~>
            (HostPortOf(t) \in lips \/ mainThread = "stopped")

\* C22: a collect for a target without a connection returns the empty
\* list, leaves the target registered and changes nothing of any connection
\* or of the manager's tasks; and as long as the process serves, a collect
\* for any target can run.
C22_CollectBeforeConnection ==
    /\ [](/\ scrape.result \in {"none", "empty", "metrics"}
          /\ scrape.result = "empty" => scrape.target \in registered
          /\ mainThread = "serving" => \A u \in Targets : ENABLED Collect(u))
    /\ [][(scrape' # scrape /\ ~GetLipservice(scrape'.target)) =>
             /\ scrape'.result = "empty"
             /\ scrape'.target \in registered'
             /\ UNCHANGED <<lips, running, finished, failed, mgr, top,
                            nconn, otable, fatal, asyncThread>>
             /\ UNCHANGED <<connVars, pollVars>>]_vars

\* The connection of b exists and its tasks are pending when a collect for
\* a, which has none, returns the empty list.
C22_Witness ==
    /\ scrape = [target |-> "a", result |-> "empty"]
    /\ lips = {<<"b", 23>>}
    /\ running[<<<<"b", 23>>, "poll">>] = 1
    /\ "a" \in registered

(***************************************************************************)
(* RuSpec: successive _read_until calls on every stream of MaxPieces       *)
(* pieces, cut into reads in every way.                                    *)
(***************************************************************************)
RuInit ==
    /\ ConnInit
    /\ variant = "lip"
    /\ MgrInit
    /\ PollInit
    /\ BrainInit
    /\ KaInit
    /\ TimerInitAt(54000)
    /\ WrInit
    /\ FrInit
    /\ XInit
    /\ EpInit
    /\ NxInit
    /\ DirInitAt(NoReport, "idle")
    /\ ReInitAt(NoReport, "off")
    /\ CtrInitAt(0)
    /\ \E s \in StreamsOf(MaxPieces), v \in {"re", "prompt"} : RuInitAt(s, v)

RuNext ==
    \/ RuSearch
    \/ \E n \in 1..Len(rdata) : RuRead(n)
    \/ RuEmptyRead
    \/ RuOSError

RuSpec == RuInit /\ [][RuNext]_vars

\* C23: however the stream is cut into reads, the calls return what they
\* return with the whole stream in the buffer at once: what was returned,
\* followed by what the bytes still in the buffer and on the line give at
\* once, is always that; the bytes after a match stay in the buffer; and
\* at the end of the stream the call returns False after exactly those
\* results, with the incomplete bytes in no result.
C23_SameForEverySplit ==
    /\ rupc \in {"search", "read"} =>
          ruout \o AtOnce(read_buffer \o rdata, value) = AtOnce(rstream0, value)
    /\ rupc = "eof" =>
          /\ ruout = AtOnce(rstream0, value) \o <<"False">>
          /\ Locate(read_buffer, value) = <<>>
    /\ rupc = "oserror" =>
          /\ ruout[Len(ruout)] = "False"
          /\ IsPrefix(SubSeq(ruout, 1, Len(ruout) - 1), AtOnce(rstream0, value))

\* A frame and a frame cut short were sent: a read ended inside the
\* frame, the frame was returned once whole, and the stream ended with the
\* cut frame still in the buffer.
C23_Witness ==
    /\ rupc = "eof"
    /\ value = "re"
    /\ rupartial
    /\ Len(ruout) = 2
    /\ ruout[1] = <<"~", "A", ",", "1", ",", "1", ",", "1", "CR", "LF">>
    /\ read_buffer = <<"~", "O", ",", "1", ".">>

\* C24: a write, query, ping or logout that finds the state not Opened
\* under the write lock writes nothing and leaves the state, the socket and
\* the read buffer as they are; a logout that finds it Opened ends, by a
\* return or by an exception, with the state Closed.
C24_WriteSideNoOpOrLogout ==
    [][\A t \in Tasks :
         /\ (pc[t] = "w_lock" /\ pc'[t] \in {AfterOp(t), "w_drain"}
               /\ st # "Opened") =>
               /\ pc'[t] = AfterOp(t)
               /\ UNCHANGED <<st, sock, buf, wlock>>
         /\ (pc[t] = "w_drain" /\ op[t] = "logout"
               /\ pc'[t] \in {AfterOp(t), "raised"}) =>
               st' = "Closed"]_vars

C26_BufferKeepsLatest ==
    /\ [](/\ Len(eventbuffer) <= BufferSize
          /\ Len(eventbuffer) = IF ncalls < BufferSize THEN ncalls
                                ELSE BufferSize
          /\ \A i \in 1..Len(eventbuffer) :
                eventbuffer[i] = ncalls - Len(eventbuffer) + i)
    /\ [][(Len(bstack') > Len(bstack) \/ bobs' # bobs \/ bkey' # bkey) =>
             /\ ncalls' = ncalls + 1
             /\ eventbuffer'[Len(eventbuffer')] = ncalls + 1]_vars

\* The buffer is full and has lost its two oldest entries; the last call
\* was a nested run.
C26_Witness ==
    /\ ncalls = BufferSize + 2
    /\ eventbuffer[1] = 3
    /\ Len(bstack) = 2
    /\ bkey # <<>>

(***************************************************************************)
(* DirSpec: a directory loaded from a report, dumped, and loaded again     *)
(* from the dump; or loaded from a flat configuration.                     *)
(***************************************************************************)
DirInit ==
    /\ ConnInit
    /\ variant = "lip"
    /\ MgrInit
    /\ PollInit
    /\ BrainInit
    /\ KaInit
    /\ TimerInitAt(54000)
    /\ WrInit
    /\ FrInit
    /\ XInit
    /\ EpInit
    /\ NxInit
    /\ RuInitAt(<<>>, "prompt")
    /\ ReInitAt(NoReport, "off")
    /\ CtrInitAt(0)
    /\ \/ \E r \in Reports : DirInitAt(r, "report")
       \/ \E c \in FlatConfigs : DirFlatInit(c)

DirNext ==
    \/ LoadReport
    \/ DumpYaml
    \/ YamlLoad
    \/ LoadFlat

DirSpec == DirInit /\ [][DirNext]_vars

\* C27: when the way from the report through the dump and the YAML loader
\* to _process_integration_yaml has ended, it has ended with a directory,
\* whose scene, dimmer and sensor maps are those built from the report.
C27_RoundTrip ==
    (js # NoReport /\ dpc \in {"reloaded", "YAMLError", "AttributeError"}) =>
        /\ dpc = "reloaded"
        /\ sceneid_to_name = direct.scenes
        /\ deviceid_to_dimmertuple = direct.dimmers
        /\ deviceid_to_sensortuple = direct.sensors

ReInit ==
    /\ ConnInit
    /\ variant = "lip"
    /\ MgrInit
    /\ PollInit
    /\ BrainInit
    /\ KaInit
    /\ TimerInitAt(54000)
    /\ WrInit
    /\ FrInit
    /\ XInit
    /\ EpInit
    /\ NxInit
    /\ RuInitAt(<<>>, "prompt")
    /\ CtrInitAt(0)
    /\ \E r \in Reports, n \in NewReports :
          /\ js = r
          /\ sceneid_to_name = ImportFirst(r, ImportSteps(r)).scenes
          /\ deviceid_to_sensortuple = ImportFirst(r, ImportSteps(r)).sensors
          /\ deviceid_to_dimmertuple = ImportFirst(r, ImportSteps(r)).dimmers
          /\ areaname_to_devices = ImportFirst(r, ImportSteps(r)).areas
          /\ dpc = "loaded"
          /\ direct = ImportFirst(r, ImportSteps(r))
          /\ ytext = NoDoc
          /\ yconf = NoConf
          /\ newjs = n
          /\ repc = "called"
          /\ rek = 0
          /\ previous = ImportFirst(r, ImportSteps(r))
          /\ observed = None

ReNext ==
    \/ ReAssert
    \/ ReEmpty
    \/ ReTurn
    \/ ReScrape

ReSpec == ReInit /\ [][ReNext]_vars

\* C29: a second import is one atomic step: what a scrape reads is the
\* previous directory or the whole directory of the new report, never a
\* mixture with empty maps, and after an import that failed the directory
\* is the previous one.
C29_ReimportAtomic ==
    /\ observed # None =>
          \/ observed[1] = previous
          \/ /\ newjs # NoReport
             /\ Complete(newjs)
             /\ observed[1] = ImportFirst(newjs, ImportSteps(newjs))
    /\ repc \in {"AssertionError", "KeyError"} => Maps = previous

(***************************************************************************)
(* CtrSpec: the press counters and the scrapes of one Lipservice whose     *)
(* connection comes and goes.                                              *)
(***************************************************************************)
CtrInit ==
    /\ ConnInit
    /\ variant = "lip"
    /\ MgrInit
    /\ PollInit
    /\ BrainInit
    /\ KaInit
    /\ TimerInitAt(54000)
    /\ WrInit
    /\ FrInit
    /\ XInit
    /\ EpInit
    /\ NxInit
    /\ RuInitAt(<<>>, "prompt")
    /\ DirInitAt(NoReport, "idle")
    /\ ReInitAt(NoReport, "off")
    /\ \E t \in 0..1 : CtrInitAt(t)

CtrNext ==
    \/ CtrTick
    \/ CtrMake
    \/ CtrOpen
    \/ CtrLost
    \/ \E f \in Frames : CtrFrame(f)
    \/ CtrScrape

CtrSpec == CtrInit /\ [][CtrNext]_vars

\* No key leaves the counter map and no count goes down.
NotLess(m, n) == \A k \in DOMAIN m : k \in DOMAIN n /\ n[k] >= m[k]

\* C30 as stated: over frames, disconnects and reconnects no press counter
\* decreases or is reset, and the creation timestamp a scrape reports is
\* always the same, the time at which the connection was opened.
C30_CreatedAtOpen ==
    /\ [][/\ conn # "none" =>
               /\ NotLess(counts_by_scene_number, counts_by_scene_number')
               /\ NotLess(counts_by_deviceid_component,
                          counts_by_deviceid_component')
          /\ created # None => created' = created]_vars
    /\ []((created # None /\ opentimes # {}) => created[1] \in opentimes)

\* C30, amended: over frames, disconnects and reconnects no press counter
\* decreases or is reset, and the creation timestamp a scrape reports is
\* always the same, the time at which the LutronClient was constructed.
C30_CreatedAtClientStart ==
    /\ [][/\ conn # "none" =>
               /\ NotLess(counts_by_scene_number, counts_by_scene_number')
               /\ NotLess(counts_by_deviceid_component,
                          counts_by_deviceid_component')
          /\ created # None => created' = created
          /\ clientstarttime' = clientstarttime
          /\ created' # None => created' = Some(clientstarttime)]_vars
    /\ [](clientstarttime <= cnow /\ \A t \in opentimes : clientstarttime <= t)

\* A scrape after a press, a lost connection, a second login at a later
\* time and a second press of the same button.
C30_Witness ==
    /\ created # None
    /\ Cardinality(opentimes) = 2
    /\ conn = "opened"
    /\ cnow > clientstarttime
    /\ \E k \in DOMAIN counts_by_scene_number : counts_by_scene_number[k] = 2

(***************************************************************************)
(* WrSpec: commands run against two targets whose connections come and go. *)
(***************************************************************************)
WrNext ==
    \/ \E t \in RunTargets : WrFlip(t)
    \/ \E t \in RunTargets, d \in RunSelectors, l \in RunLevels : WrRun(t, d, l)

WrSpec == LipInit /\ [][WrNext]_vars

C32_InsertionsUnderLock ==
    [][cv = "collect" =>
          /\ DOMAIN outputlevels' = DOMAIN outputlevels
          /\ DOMAIN counts_by_scene_number' = DOMAIN counts_by_scene_number
          /\ DOMAIN counts_by_deviceid_component' =
                DOMAIN counts_by_deviceid_component]_vars

\* C33: a ping, a query or a write whose socket write or drain fails ends
\* by returning to its caller, keepAliveLoop, the level query pass or the
\* caller of write, and never by an exception, so that the failure does
\* not end the scheduler.
C33_SendFailureNotRaised ==
    [][\A t \in Tasks :
          (pc[t] = "w_drain" /\ op[t] \in {"ping", "query", "write"}
              /\ pc'[t] # "cancelled") => pc'[t] \in {"w_drain", AfterOp(t)}]_vars

\* C34: when the action a timer fires has ended, by a return or by an
\* exception, at its scheduled time or in the catch-up of a date rollover,
\* process_timers goes on: with the next catch-up entry and the heap of the
\* new day, or with the return of its continuation; it never ends with the
\* exception.
C34_FailedTimerActionIsSurvived ==
    /\ [][/\ tpc = "firing" => tpc' \in {"firing", "ready"}
          /\ tpc = "catchrun" => tpc' \in {"catchrun", "catchup"}]_vars
    /\ [](tpc # "raised")

\* C35: a ratelimit directive inside a nested action ends at most that
\* nested invocation: the run of the enclosing sequence goes on with its
\* next step, so that, unless a client raised, it returns and its last
\* call is the step after the nested action.
C35_NestedRatelimitIsLocal ==
    (bact = "guarded" /\ bres \in {"returned", "raised"} /\ bexc # "client") =>
        /\ bres = "returned"
        /\ blog # <<>>
        /\ blog[Len(blog)] = CallOf(BActions["guarded"][2])

\* C38: at a ratelimit directive a run either passes, which records the
\* time under the action's name and goes on to the next step, or is
\* inhibited, which leaves the recorded time as it is and ends this
\* invocation by a return; it does nothing else.
C38_OnlyPassingRunStamps ==
    [][(bres = "running" /\ Top.i <= Len(BActions[Top.a])
          /\ BActions[Top.a][Top.i].k = "short"
          /\ BActions[Top.a][Top.i].name = "ratelimit"
          /\ <<bstack, bres>>' # <<bstack, bres>>) =>
          \/ /\ Top.a \in DOMAIN ratelimits'
             /\ bstack' = Append(Rest, [a |-> Top.a, i |-> Top.i + 1])
             /\ bres' = "running"
          \/ /\ ratelimits' = ratelimits
             /\ bstack' = Rest
             /\ bres' \in {"running", "returned"}]_vars

(***************************************************************************)
(* FrSpec: the poll loop of one Lipservice on an opened connection.        *)
(***************************************************************************)
FrStartInit ==
    /\ ConnInit
    /\ variant = "lip"
    /\ MgrInit
    /\ PollInit
    /\ BrainInit
    /\ KaInit
    /\ TimerInitAt(54000)
    /\ RuInitAt(<<>>, "prompt")
    /\ DirInitAt(NoReport, "idle")
    /\ ReInitAt(NoReport, "off")
    /\ CtrInitAt(0)
    /\ EpInit
    /\ XInit
    /\ NxInit
    /\ WrInit
    /\ fpc = "read"
    /\ flast = NoRaw

FrNext ==
    \/ \E raw \in RawFrames : FrPoll(raw)
    \/ FrLost
    \/ FrResubmit

FrSpec == FrStartInit /\ [][FrNext]_vars

\* C36: a poll that reads an ERROR frame, a frame of a kind it does not
\* know or a frame whose groups do not convert changes no output level and
\* no counter, leaves the connection Opened and returns its continuation.
C36_BadFrameChangesNothing ==
    [][(fpc = "read" /\ fpc' # "read" /\ flast' # NoRaw
          /\ (flast'[1] \in {"ERROR", "SYSVAR"} \/ ~Converts(flast'))) =>
          /\ outputlevels' = outputlevels
          /\ counts_by_scene_number' = counts_by_scene_number
          /\ counts_by_deviceid_component' = counts_by_deviceid_component
          /\ st = "Opened" /\ st' = "Opened"
          /\ fpc' = "ret"]_vars

\* After a level and a press were recorded, a frame with integration
\* number 3.5 was read.
C36_Witness ==
    /\ fpc = "ret"
    /\ flast = Raw("OUTPUT", <<"3", ".", "5">>, <<"1">>, <<"5", "0">>)
    /\ st = "Opened"
    /\ nframes = 2

(***************************************************************************)
(* XSpec: one reconnect of LipServer.read, for every rest of the old       *)
(* connection and everything a peer sends on the new one.                  *)
(***************************************************************************)
XStartInit ==
    /\ ConnInit
    /\ variant = "lip"
    /\ MgrInit
    /\ PollInit
    /\ BrainInit
    /\ KaInit
    /\ TimerInitAt(54000)
    /\ RuInitAt(<<>>, "prompt")
    /\ DirInitAt(NoReport, "idle")
    /\ ReInitAt(NoReport, "off")
    /\ CtrInitAt(0)
    /\ EpInit
    /\ NxInit
    /\ WrInit
    /\ FrInit
    /\ \E rest \in OldRests, sent \in SentOf(MaxSent) : XInitAt(rest, sent)

XNext ==
    \/ XConnect
    \/ XUntil("login", "password")
    \/ XUntil("password", "prompt")
    \/ XUntil("prompt", "read")
    \/ XDrainRaises
    \/ XRead

XSpec == XStartInit /\ [][XNext]_vars

EpNext ==
    \/ \E reacts \in BOOLEAN : EpPropagateSession(reacts)
    \/ \E reacts \in BOOLEAN : EpPropagateScrape(reacts)
    \/ EpMerge
    \/ EpReset
    \/ EpAwait

EpSpec == LipInit /\ [][EpNext]_vars

\* C39: a reaction that propagate added is either still pending, in the
\* propagator's set or in the set given to add_awaitables_to, or was handed
\* to the scheduler once: never neither, never twice.
C39_HandedOverExactlyOnce ==
    \A r \in 1..nadded :
       /\ handed[r] <= 1
       /\ handed[r] = 0 => r \in awaitables \cup otherset
       /\ handed[r] = 1 => r \notin awaitables \cup otherset

(***************************************************************************)
(* NxSpec: one NetAXS session, its coroutine and the scrapes that close    *)
(* and reopen it.                                                          *)
(***************************************************************************)
NxSpecInit ==
    /\ ConnInit
    /\ variant = "lip"
    /\ MgrInit
    /\ PollInit
    /\ BrainInit
    /\ KaInit
    /\ TimerInitAt(54000)
    /\ RuInitAt(<<>>, "prompt")
    /\ DirInitAt(NoReport, "idle")
    /\ ReInitAt(NoReport, "off")
    /\ CtrInitAt(0)
    /\ WrInit
    /\ FrInit
    /\ XInit
    /\ EpInit
    /\ NxStartInit

NxNext ==
    \/ NxMustOpen
    \/ NxConnected
    \/ NxReadEvent
    \/ NxClosed
    \/ NxEvent
    \/ NxConnectionClosed
    \/ NxClose
    \/ NxOpenLogin
    \/ NxOpenDone
    \/ NxOpenRaises

NxSpec == NxSpecInit /\ [][NxNext]_vars

\* C40: a reopen request is not lost: when a connect completes after
\* close() and open() have run during it, so that the request is OPEN and
\* the session is not the one whose cookies the connect was given, the
\* request is still OPEN afterwards.
C40_ReopenRequestKept ==
    [][(npc = "connecting" /\ npc' # "connecting"
          /\ async_request = "OPEN" /\ session # wcookies)
         => async_request' = "OPEN"]_vars

====
